---------------------------- MODULE Spec2Model ----------------------------
(***************************************************************************)
(* A model of the go-raptor journey planner: the two RAPTOR searches       *)
(* (SimpleRaptorDepartAt, SimpleRaptorArriveBy), the index preparation     *)
(* and the reversible slice iterator they scan with.                       *)
(*                                                                         *)
(* Stop ids are small naturals, trip ids are strings, times are small      *)
(* integers.  Go maps are TLA+ functions whose DOMAIN is the key set.  A   *)
(* Go slice is a record [arr, len]: arr is the whole backing array from    *)
(* the slice's first element (Len(arr) is the capacity), len the length.   *)
(* Indices stored in the lookup maps are Go indices (0-based).             *)
(***************************************************************************)
EXTENDS Integers, Sequences, FiniteSets, TLC

(***************************************************************************)
(* Bounds of the input family.                                             *)
(***************************************************************************)
MaxTransfers == 3
MaxStart == 2
MaxRef == 2
MaxWalk == 1
\* the longest slice handed to an iterator, and the largest element in it
MaxLen == 3
MaxElem == 1
\* the timestamps and intervals passed to GetTimePartition
MaxTimestamp == 7
MaxInterval == 3

RaptorModeDepartAt == "depart_at"
RaptorModeArriveBy == "arrive_by"
\* RaptorMode is a string type: the zero value of a Mode that was never set
RaptorModeUnset == ""
RaptorMarkedStopSourceArrival == "arrival"
RaptorMarkedStopSourceTransfer == "transfer"

(***************************************************************************)
(* Go map helpers.                                                         *)
(***************************************************************************)
EmptyMap == [k \in {} |-> 0]

MapPut(m, k, v) == [x \in (DOMAIN m) \cup {k} |-> IF x = k THEN v ELSE m[x]]

Min(a, b) == IF a < b THEN a ELSE b

(***************************************************************************)
(* Slices.  append() on the index lists grows the backing array by         *)
(* doubling, so a list built one element at a time has the next power of   *)
(* two as its capacity, and the part of the array past the length holds    *)
(* the zero value.                                                         *)
(***************************************************************************)
RECURSIVE GrowCap(_, _)
GrowCap(cap, n) == IF cap >= n THEN cap ELSE GrowCap(2 * cap, n)

AppendCap(n) == IF n = 0 THEN 0 ELSE GrowCap(1, n)

AppendedSlice(elems) ==
    [arr |-> elems \o [i \in 1..(AppendCap(Len(elems)) - Len(elems)) |-> 0],
     len |-> Len(elems)]

\* s[low:high] of Go: legal iff 0 <= low <= high <= cap(s)
SliceExprOk(s, low, high) == 0 <= low /\ low <= high /\ high <= Len(s.arr)

SliceExpr(s, low, high) ==
    [arr |-> SubSeq(s.arr, low + 1, Len(s.arr)), len |-> high - low]

(***************************************************************************)
(* SliceIterator (slice_it.go).                                            *)
(***************************************************************************)
NewSliceIterator(data, reverse) ==
    [data |-> data, length |-> data.len,
     index |-> IF reverse THEN data.len - 1 ELSE 0, reverse |-> reverse]

Length(it) == it.length

HasNext_StopsBeforeHead(it) ==
    IF it.reverse THEN it.index > 0 ELSE it.index < it.data.len

HasNext(it) == IF it.reverse THEN it.index >= 0 ELSE it.index < it.data.len

\* Next panics unless HasNext
NextOk(it) == HasNext(it)

\* the value Next returns and the iterator it leaves; only when HasNext
NextVal(it) == it.data.arr[it.index + 1]

NextIt(it) == [it EXCEPT !.index = IF it.reverse THEN @ - 1 ELSE @ + 1]

FirstOk(it) == it.length # 0

First(it) == IF it.reverse THEN it.data.arr[it.length] ELSE it.data.arr[1]

SubLow_FromHead(it, from_inclusive, num_items) == from_inclusive

SubLow(it, from_inclusive, num_items) ==
    IF it.reverse THEN it.length - from_inclusive - num_items ELSE from_inclusive

SubHigh(it, from_inclusive, num_items) ==
    IF it.reverse THEN it.length - from_inclusive ELSE from_inclusive + num_items

\* the slice expression of SliceIterator does not panic
SliceIteratorOk(it, from_inclusive, num_items) ==
    SliceExprOk(it.data, SubLow(it, from_inclusive, num_items),
                SubHigh(it, from_inclusive, num_items))

\* the requested sub-range lies inside the iterator's own elements
WithinBounds(it, from_inclusive, num_items) ==
    /\ from_inclusive >= 0
    /\ num_items >= 0
    /\ from_inclusive + num_items <= it.length

SliceIterator(it, from_inclusive, num_items) ==
    NewSliceIterator(SliceExpr(it.data, SubLow(it, from_inclusive, num_items),
                               SubHigh(it, from_inclusive, num_items)),
                     it.reverse)

\* the values a HasNext/Next loop yields from the iterator, in order
RECURSIVE Drain(_)
Drain(it) == IF HasNext(it) THEN <<NextVal(it)>> \o Drain(NextIt(it)) ELSE <<>>

(***************************************************************************)
(* PrepareRaptorInput: the lookup maps built from the raw lists.           *)
(***************************************************************************)
IndexSeq(n) == [i \in 1..n |-> i - 1]

ToStopsByUniqueStopId(inp) == {inp.ToStops[i] : i \in 1..Len(inp.ToStops)}

FromStopsByUniqueStopId(inp) == {inp.FromStops[i] : i \in 1..Len(inp.FromStops)}

\* the index lists the single pass over the raw lists appends to
BuiltTransfers(inp, id) ==
    SelectSeq(IndexSeq(Len(inp.Transfers)),
              LAMBDA i : inp.Transfers[i + 1].FromUniqueStopID = id)

BuiltStopTimesByStop_FromSecond(inp, id) ==
    SelectSeq(IndexSeq(Len(inp.StopTimes)),
              LAMBDA i : i > 0 /\ inp.StopTimes[i + 1].UniqueStopID = id)

BuiltStopTimesByStop(inp, id) ==
    SelectSeq(IndexSeq(Len(inp.StopTimes)),
              LAMBDA i : inp.StopTimes[i + 1].UniqueStopID = id)

BuiltStopTimesByTripService(inp, id) ==
    SelectSeq(IndexSeq(Len(inp.StopTimes)),
              LAMBDA i : inp.StopTimes[i + 1].UniqueTripServiceID = id)

\* m[id] of a map whose values are slices: the nil slice for a missing key
SliceAt(m, id) == IF id \in DOMAIN m THEN m[id] ELSE [arr |-> <<>>, len |-> 0]

\* a supplied index (a non-nil pointer, <<map>>) is adopted as it is; a
\* missing one (nil, <<>>) is built
TransfersByUniqueStopId(inp, id) ==
    IF inp.TransfersByUniqueStopId # <<>>
    THEN SubSeq(SliceAt(inp.TransfersByUniqueStopId[1], id).arr, 1,
                SliceAt(inp.TransfersByUniqueStopId[1], id).len)
    ELSE BuiltTransfers(inp, id)

StopTimesByUniqueStopId(inp, id) ==
    IF inp.StopTimesByUniqueStopId # <<>>
    THEN SliceAt(inp.StopTimesByUniqueStopId[1], id)
    ELSE AppendedSlice(BuiltStopTimesByStop(inp, id))

StopTimesByUniqueTripServiceId(inp, id) ==
    IF inp.StopTimesByUniqueTripServiceId # <<>>
    THEN SliceAt(inp.StopTimesByUniqueTripServiceId[1], id)
    ELSE AppendedSlice(BuiltStopTimesByTripService(inp, id))

(***************************************************************************)
(* RoundSegment, spans, journeys.  A nil ViaTrip is <<>>, a non-nil one    *)
(* is the one-element sequence holding the ViaTrip record.                 *)
(***************************************************************************)
ViaTripOf(st_from_seq, st) ==
    <<[UniqueTripID |-> st.UniqueTripID,
       UniqueTripServiceID |-> st.UniqueTripServiceID,
       FromStopSequenceInTrip |-> st_from_seq.from,
       ToStopSequenceInTrip |-> st_from_seq.to]>>

RoundSegment(id, arrival, spans) ==
    [UniqueStopID |-> id, ArrivalTimeInSeconds |-> arrival, Spans |-> spans]

\* "<from>|<trip id or empty>|<to>" per span, joined by "->"
SpanPart(leg) ==
    <<leg.FromUniqueStopID,
      IF leg.ViaTrip # <<>> THEN leg.ViaTrip[1].UniqueTripID ELSE "",
      leg.ToUniqueStopID>>

GetFingerPrint(spans) == [i \in 1..Len(spans) |-> SpanPart(spans[i])]

JourneyOf_FromLastLeg(spans) ==
    [FromUniqueStopID |-> spans[Len(spans)].FromUniqueStopID,
     ToUniqueStopID |-> spans[Len(spans)].ToUniqueStopID,
     DepartureTimeInSeconds |-> spans[1].DepartureTimeInSecondsFromUniqueStopID,
     ArrivalTimeInSeconds |-> spans[Len(spans)].ArrivalTimeInSecondsToUniqueStopID,
     Legs |-> spans]

JourneyOf(spans) ==
    [FromUniqueStopID |-> spans[1].FromUniqueStopID,
     ToUniqueStopID |-> spans[Len(spans)].ToUniqueStopID,
     DepartureTimeInSeconds |-> spans[1].DepartureTimeInSecondsFromUniqueStopID,
     ArrivalTimeInSeconds |-> spans[Len(spans)].ArrivalTimeInSecondsToUniqueStopID,
     Legs |-> spans]

\* the emission test without the two ViaTrip tests
IsNewJourney_AnyBoundary(segment, fingerprints) ==
    /\ GetFingerPrint(segment.Spans) \notin fingerprints
    /\ Len(segment.Spans) > 0

\* the emission test without the fingerprint lookup
IsNewJourney_SeenAgain(segment, fingerprints) ==
    /\ Len(segment.Spans) > 0
    /\ segment.Spans[1].ViaTrip # <<>>
    /\ segment.Spans[Len(segment.Spans)].ViaTrip # <<>>

\* the test that guards the emission of a journey
IsNewJourney(segment, fingerprints) ==
    /\ GetFingerPrint(segment.Spans) \notin fingerprints
    /\ Len(segment.Spans) > 0
    /\ segment.Spans[1].ViaTrip # <<>>
    /\ segment.Spans[Len(segment.Spans)].ViaTrip # <<>>

MarkedStop(id, source) == [ID |-> id, Source |-> source]

(***************************************************************************)
(* The state a search works on:                                            *)
(*   segments      earliest_/latest_arrival_time_segments_by_unique_stop_id*)
(*   next          stops_marked_for_next_round                             *)
(*   scanned       trips_scanned_from_sequence                             *)
(*   found         potential_journeys_found                                *)
(*   fingerprints  potential_journey_fingerprints                          *)
(*   panicked      a slice expression or First() has panicked              *)
(*   overrun       history: a sub-iterator was requested that is not       *)
(*                 inside its parent's elements                            *)
(*   scans         history: the trip scans started from the marked stop    *)
(*                 being scanned, one record per boarding or alighting     *)
(*   skips         history: the departures from the marked stop being      *)
(*                 scanned that could be caught but were skipped because   *)
(*                 their trip was already scanned                          *)
(*   mark_writes   history: the writes to stops_marked_for_next_round of   *)
(*                 the round, attempted or made, in order                  *)
(***************************************************************************)
Span(from, to, via, departure, arrival) ==
    [FromUniqueStopID |-> from, ToUniqueStopID |-> to, ViaTrip |-> via,
     DepartureTimeInSecondsFromUniqueStopID |-> departure,
     ArrivalTimeInSecondsToUniqueStopID |-> arrival]

\* the zero value a Go map lookup yields for a missing key
SegmentAt(segments, id) ==
    IF id \in DOMAIN segments THEN segments[id] ELSE RoundSegment(id, 0, <<>>)

\* the journey check at a reached terminal stop; the result says whether
\* the scan of the trip breaks
EmitJourney(s, id) ==
    LET segment == SegmentAt(s.segments, id)
    IN  IF IsNewJourney(segment, s.fingerprints)
        THEN [s EXCEPT !.found = Append(@, JourneyOf(segment.Spans)),
                       !.fingerprints = @ \cup {GetFingerPrint(segment.Spans)}]
        ELSE s

(***************************************************************************)
(* SimpleRaptorDepartAt, the body of the loop over one marked stop.        *)
(***************************************************************************)
\* the continue of the boarding loop without the departure time test
DepartAtSkips_AnyDeparture(stop_time, current_segment, scanned) ==
    /\ stop_time.UniqueTripID \in DOMAIN scanned
    /\ stop_time.StopSequence >= scanned[stop_time.UniqueTripID]

\* the trip test of the boarding loop passing a boarding at the stored sequence
DepartAtScannedFrom_Beyond(stop_time, scanned) ==
    /\ stop_time.UniqueTripID \in DOMAIN scanned
    /\ stop_time.StopSequence > scanned[stop_time.UniqueTripID]

\* the trip was already forward scanned past or from this sequence
DepartAtScannedFrom(stop_time, scanned) ==
    /\ stop_time.UniqueTripID \in DOMAIN scanned
    /\ stop_time.StopSequence >= scanned[stop_time.UniqueTripID]

\* the continue of the boarding loop
DepartAtSkips(stop_time, current_segment, scanned) ==
    \/ stop_time.DepartureTimeInSeconds < current_segment.ArrivalTimeInSeconds
    \/ DepartAtScannedFrom(stop_time, scanned)

\* the improvement test taking an equal arrival time for an improvement
DepartAtImproves_Never(segments, id, arrival) == FALSE

DepartAtImproves_OrEqual(segments, id, arrival) ==
    id \notin DOMAIN segments \/ segments[id].ArrivalTimeInSeconds >= arrival

DepartAtImproves(segments, id, arrival) ==
    id \notin DOMAIN segments \/ segments[id].ArrivalTimeInSeconds > arrival

\* the spans of a walk recorded as two spans, one that waits and one that walks
TransferSpans_SplitWalk(existing_segment, following_stop_time, transfer_stop) ==
    existing_segment.Spans
      \o <<Span(following_stop_time.UniqueStopID,
                following_stop_time.UniqueStopID, <<>>,
                following_stop_time.ArrivalTimeInSeconds,
                following_stop_time.ArrivalTimeInSeconds),
           Span(following_stop_time.UniqueStopID,
                transfer_stop.ToUniqueStopID, <<>>,
                following_stop_time.ArrivalTimeInSeconds,
                following_stop_time.ArrivalTimeInSeconds
                  + transfer_stop.MinimumTransferTimeInSeconds)>>

\* the spans of the label a walk writes: those of the ride just taken and
\* one span with a nil ViaTrip
TransferSpans(existing_segment, following_stop_time, transfer_stop) ==
    Append(existing_segment.Spans,
           Span(following_stop_time.UniqueStopID,
                transfer_stop.ToUniqueStopID, <<>>,
                following_stop_time.ArrivalTimeInSeconds,
                following_stop_time.ArrivalTimeInSeconds
                  + transfer_stop.MinimumTransferTimeInSeconds))

\* a write to stops_marked_for_next_round as the round's history keeps it:
\* the stop, the source, the mark the stop had before, whether the write
\* took place, for an arrival mark the source of the marked stop the scan
\* started from, and whether the label of the stop was written with it
MarkWrite(next, id, source, written, by, improved) ==
    [id |-> id, source |-> source,
     prior |-> IF id \in DOMAIN next THEN <<next[id].Source>> ELSE <<>>,
     written |-> written, by |-> by, improved |-> improved]

AllowsTransfers_Always(inp, marked_stop) == TRUE

\* input.AllowTransferHopping || marked_stop.Source == RaptorMarkedStopSourceArrival
AllowsTransfers(inp, marked_stop) ==
    inp.AllowTransferHopping \/ marked_stop.Source = RaptorMarkedStopSourceArrival

HasAlreadyMarkedStop_Never(next, to) == FALSE

\* _, has_already_marked_stop := stops_marked_for_next_round[to]
HasAlreadyMarkedStop(next, to) == to \in DOMAIN next

\* the walking transfers out of the stop of following_stop_time
RECURSIVE DepartAtTransfers(_, _, _, _, _, _)
DepartAtTransfers(inp, following_stop_time, existing_segment, transfers, j, s) ==
    IF j > Len(transfers) THEN s
    ELSE
      LET transfer_stop == inp.Transfers[transfers[j] + 1]
          to == transfer_stop.ToUniqueStopID
          arrival_time_at_transfer_stop ==
              following_stop_time.ArrivalTimeInSeconds
                + transfer_stop.MinimumTransferTimeInSeconds
          updated_spans ==
              TransferSpans(existing_segment, following_stop_time, transfer_stop)
          walk_improves == DepartAtImproves(s.segments, to,
                                            arrival_time_at_transfer_stop)
          s1 == IF HasAlreadyMarkedStop(s.next, to)
                THEN [s EXCEPT !.mark_writes = Append(@,
                          MarkWrite(s.next, to, RaptorMarkedStopSourceTransfer, FALSE,
                                    <<>>, walk_improves))]
                ELSE [s EXCEPT !.next = MapPut(@, to,
                          MarkedStop(to, RaptorMarkedStopSourceTransfer)),
                               !.mark_writes = Append(@,
                          MarkWrite(s.next, to, RaptorMarkedStopSourceTransfer, TRUE,
                                    <<>>, walk_improves))]
          s2 == IF DepartAtImproves(s1.segments, to, arrival_time_at_transfer_stop)
                THEN [s1 EXCEPT !.segments = MapPut(@, to,
                          RoundSegment(to, arrival_time_at_transfer_stop, updated_spans))]
                ELSE s1
      IN  DepartAtTransfers(inp, following_stop_time, existing_segment,
                            transfers, j + 1, s2)

\* the loop over the stop times after the boarding one
RECURSIVE DepartAtFollowing(_, _, _, _, _, _, _)
DepartAtFollowing(inp, marked_stop, current_segment, stop_time, items, k, s) ==
    IF k > Len(items) THEN s
    ELSE
      LET following_stop_time == inp.StopTimes[items[k] + 1]
          id == following_stop_time.UniqueStopID
          improves == DepartAtImproves(s.segments, id,
                                       following_stop_time.ArrivalTimeInSeconds)
          updated_spans ==
              Append(current_segment.Spans,
                     Span(stop_time.UniqueStopID, id,
                          ViaTripOf([from |-> stop_time.StopSequence,
                                     to |-> following_stop_time.StopSequence],
                                    following_stop_time),
                          stop_time.DepartureTimeInSeconds,
                          following_stop_time.ArrivalTimeInSeconds))
          existing_segment ==
              RoundSegment(id, following_stop_time.ArrivalTimeInSeconds, updated_spans)
          s1 == IF improves
                THEN [s EXCEPT !.segments = MapPut(@, id, existing_segment)]
                ELSE s
          s2 == IF improves /\ AllowsTransfers(inp, marked_stop)
                THEN DepartAtTransfers(inp, following_stop_time, existing_segment,
                                       TransfersByUniqueStopId(inp, id), 1, s1)
                ELSE s1
          s3 == [s2 EXCEPT !.next = MapPut(@, id,
                          MarkedStop(id, RaptorMarkedStopSourceArrival)),
                           !.mark_writes = Append(@,
                          MarkWrite(s2.next, id, RaptorMarkedStopSourceArrival, TRUE,
                                    <<marked_stop.Source>>, improves))]
          s4 == IF id \in ToStopsByUniqueStopId(inp) THEN EmitJourney(s3, id) ELSE s3
      IN  IF Len(s4.found) > Len(s3.found) THEN s4
          ELSE DepartAtFollowing(inp, marked_stop, current_segment, stop_time,
                                 items, k + 1, s4)

\* the offsets of the sub-iterator over the stop times after the boarding one
DepartAtStartOffset(inp, stop_time, it) ==
    stop_time.StopSequence - inp.StopTimes[First(it) + 1].StopSequence + 1

DepartAtEndOffset(inp, stop_time, it, scanned) ==
    scanned[stop_time.UniqueTripID] - inp.StopTimes[First(it) + 1].StopSequence

DepartAtNumItems(inp, stop_time, it, scanned) ==
    IF stop_time.UniqueTripID \notin DOMAIN scanned
    THEN Length(it)
    ELSE DepartAtEndOffset(inp, stop_time, it, scanned)

\* what a boarding or alighting at stop time number used (0-based) asks of
\* the stop times of its trip service: the sequence a prior scan of the trip
\* started from, if any, and the stop times the sub-iterator hands to the
\* loop over the rest of the trip, in order
TripScan(used, stop_time, it, from_inclusive, num_items, scanned) ==
    [used |-> used,
     prior |-> IF stop_time.UniqueTripID \in DOMAIN scanned
               THEN <<scanned[stop_time.UniqueTripID]>> ELSE <<>>,
     panicked |-> ~FirstOk(it) \/ ~SliceIteratorOk(it, from_inclusive, num_items),
     items |-> IF FirstOk(it) /\ SliceIteratorOk(it, from_inclusive, num_items)
               THEN Drain(SliceIterator(it, from_inclusive, num_items))
               ELSE <<>>]

\* a departure that can be caught is skipped for the prior scan of its trip:
\* the stop times further along its trip service whose stops it would have
\* improved at that moment
TripSkip(inp, used, stop_time, s) ==
    [used |-> used,
     prior |-> s.scanned[stop_time.UniqueTripID],
     missed |-> {i \in 0..(Len(inp.StopTimes) - 1) :
                   /\ inp.StopTimes[i + 1].UniqueTripServiceID
                        = stop_time.UniqueTripServiceID
                   /\ inp.StopTimes[i + 1].StopSequence > stop_time.StopSequence
                   /\ DepartAtImproves(s.segments, inp.StopTimes[i + 1].UniqueStopID,
                                       inp.StopTimes[i + 1].ArrivalTimeInSeconds)}]

\* the loop over the stop times of the marked stop
RECURSIVE DepartAtBoardings(_, _, _, _, _, _)
DepartAtBoardings(inp, marked_stop, current_segment, boardings, b, s) ==
    IF b > Len(boardings) \/ s.panicked THEN s
    ELSE
      LET stop_time == inp.StopTimes[boardings[b] + 1]
          it == NewSliceIterator(
                    StopTimesByUniqueTripServiceId(inp, stop_time.UniqueTripServiceID),
                    FALSE)
          from_inclusive == DepartAtStartOffset(inp, stop_time, it)
          num_items == DepartAtNumItems(inp, stop_time, it, s.scanned)
          s1 == [s EXCEPT !.scanned = MapPut(@, stop_time.UniqueTripID,
                                             stop_time.StopSequence),
                          !.overrun = @ \/ ~FirstOk(it)
                                        \/ ~WithinBounds(it, from_inclusive, num_items),
                          !.scans = Append(@, TripScan(boardings[b], stop_time, it,
                                                       from_inclusive, num_items,
                                                       s.scanned))]
          s0 == IF stop_time.DepartureTimeInSeconds
                     >= current_segment.ArrivalTimeInSeconds
                THEN [s EXCEPT !.skips = Append(@, TripSkip(inp, boardings[b],
                                                            stop_time, s))]
                ELSE s
      IN  IF DepartAtSkips(stop_time, current_segment, s.scanned)
          THEN DepartAtBoardings(inp, marked_stop, current_segment, boardings, b + 1, s0)
          ELSE IF ~FirstOk(it) \/ ~SliceIteratorOk(it, from_inclusive, num_items)
          THEN [s1 EXCEPT !.panicked = TRUE]
          ELSE DepartAtBoardings(inp, marked_stop, current_segment, boardings, b + 1,
                   DepartAtFollowing(inp, marked_stop, current_segment, stop_time,
                       Drain(SliceIterator(it, from_inclusive, num_items)), 1, s1))

DepartAtScan(inp, marked_stop, s) ==
    DepartAtBoardings(inp, marked_stop, SegmentAt(s.segments, marked_stop.ID),
        Drain(NewSliceIterator(StopTimesByUniqueStopId(inp, marked_stop.ID), FALSE)),
        1, s)

(***************************************************************************)
(* SimpleRaptorArriveBy, the body of the loop over one marked stop.        *)
(***************************************************************************)
ArriveBySkips(stop_time, current_segment, scanned) ==
    \/ stop_time.ArrivalTimeInSeconds > current_segment.ArrivalTimeInSeconds
    \/ /\ stop_time.UniqueTripID \in DOMAIN scanned
       /\ stop_time.StopSequence <= scanned[stop_time.UniqueTripID]

ArriveByImproves(segments, id, time) ==
    id \notin DOMAIN segments \/ time > segments[id].ArrivalTimeInSeconds

RECURSIVE ArriveByTransfers(_, _, _, _, _, _)
ArriveByTransfers(inp, preceeding_stop_time, existing_segment, transfers, j, s) ==
    IF j > Len(transfers) THEN s
    ELSE
      LET transfer_stop == inp.Transfers[transfers[j] + 1]
          to == transfer_stop.ToUniqueStopID
          departure_time_from_transfer_stop ==
              preceeding_stop_time.ArrivalTimeInSeconds
                - transfer_stop.MinimumTransferTimeInSeconds
          updated_spans ==
              <<Span(to, preceeding_stop_time.UniqueStopID, <<>>,
                     departure_time_from_transfer_stop,
                     preceeding_stop_time.ArrivalTimeInSeconds)>>
                \o existing_segment.Spans
          walk_improves == ArriveByImproves(s.segments, to,
                                            departure_time_from_transfer_stop)
          s1 == IF HasAlreadyMarkedStop(s.next, to)
                THEN [s EXCEPT !.mark_writes = Append(@,
                          MarkWrite(s.next, to, RaptorMarkedStopSourceTransfer, FALSE,
                                    <<>>, walk_improves))]
                ELSE [s EXCEPT !.next = MapPut(@, to,
                          MarkedStop(to, RaptorMarkedStopSourceTransfer)),
                               !.mark_writes = Append(@,
                          MarkWrite(s.next, to, RaptorMarkedStopSourceTransfer, TRUE,
                                    <<>>, walk_improves))]
          s2 == IF ArriveByImproves(s1.segments, to, departure_time_from_transfer_stop)
                THEN [s1 EXCEPT !.segments = MapPut(@, to,
                          RoundSegment(to, departure_time_from_transfer_stop, updated_spans))]
                ELSE s1
      IN  ArriveByTransfers(inp, preceeding_stop_time, existing_segment,
                            transfers, j + 1, s2)

RECURSIVE ArriveByPreceeding(_, _, _, _, _, _, _)
ArriveByPreceeding(inp, marked_stop, current_segment, stop_time, items, k, s) ==
    IF k > Len(items) THEN s
    ELSE
      LET preceeding_stop_time == inp.StopTimes[items[k] + 1]
          id == preceeding_stop_time.UniqueStopID
          improves == ArriveByImproves(s.segments, id,
                                       preceeding_stop_time.ArrivalTimeInSeconds)
          updated_spans ==
              <<Span(id, stop_time.UniqueStopID,
                     ViaTripOf([from |-> preceeding_stop_time.StopSequence,
                                to |-> stop_time.StopSequence],
                               preceeding_stop_time),
                     preceeding_stop_time.DepartureTimeInSeconds,
                     stop_time.ArrivalTimeInSeconds)>>
                \o current_segment.Spans
          existing_segment ==
              RoundSegment(id, preceeding_stop_time.ArrivalTimeInSeconds, updated_spans)
          s1 == IF improves
                THEN [s EXCEPT !.segments = MapPut(@, id, existing_segment)]
                ELSE s
          s2 == IF improves /\ AllowsTransfers(inp, marked_stop)
                THEN ArriveByTransfers(inp, preceeding_stop_time, existing_segment,
                                       TransfersByUniqueStopId(inp, id), 1, s1)
                ELSE s1
          s3 == [s2 EXCEPT !.next = MapPut(@, id,
                          MarkedStop(id, RaptorMarkedStopSourceArrival)),
                           !.mark_writes = Append(@,
                          MarkWrite(s2.next, id, RaptorMarkedStopSourceArrival, TRUE,
                                    <<marked_stop.Source>>, improves))]
          s4 == IF id \in FromStopsByUniqueStopId(inp) THEN EmitJourney(s3, id) ELSE s3
      IN  IF Len(s4.found) > Len(s3.found) THEN s4
          ELSE ArriveByPreceeding(inp, marked_stop, current_segment, stop_time,
                                  items, k + 1, s4)

ArriveByStartOffset(inp, stop_time, it) ==
    inp.StopTimes[First(it) + 1].StopSequence - stop_time.StopSequence + 1

ArriveByEndOffset(inp, stop_time, it, scanned) ==
    inp.StopTimes[First(it) + 1].StopSequence - scanned[stop_time.UniqueTripID]

ArriveByNumItems(inp, stop_time, it, scanned) ==
    IF stop_time.UniqueTripID \notin DOMAIN scanned
    THEN Length(it)
    ELSE ArriveByEndOffset(inp, stop_time, it, scanned)

RECURSIVE ArriveByAlightings(_, _, _, _, _, _)
ArriveByAlightings(inp, marked_stop, current_segment, alightings, b, s) ==
    IF b > Len(alightings) \/ s.panicked THEN s
    ELSE
      LET stop_time == inp.StopTimes[alightings[b] + 1]
          it == NewSliceIterator(
                    StopTimesByUniqueTripServiceId(inp, stop_time.UniqueTripServiceID),
                    TRUE)
          from_inclusive == ArriveByStartOffset(inp, stop_time, it)
          num_items == ArriveByNumItems(inp, stop_time, it, s.scanned)
          s1 == [s EXCEPT !.scanned = MapPut(@, stop_time.UniqueTripID,
                                             stop_time.StopSequence),
                          !.overrun = @ \/ ~FirstOk(it)
                                        \/ ~WithinBounds(it, from_inclusive, num_items),
                          !.scans = Append(@, TripScan(alightings[b], stop_time, it,
                                                       from_inclusive, num_items,
                                                       s.scanned))]
      IN  IF ArriveBySkips(stop_time, current_segment, s.scanned)
          THEN ArriveByAlightings(inp, marked_stop, current_segment, alightings, b + 1, s)
          ELSE IF ~FirstOk(it) \/ ~SliceIteratorOk(it, from_inclusive, num_items)
          THEN [s1 EXCEPT !.panicked = TRUE]
          ELSE ArriveByAlightings(inp, marked_stop, current_segment, alightings, b + 1,
                   ArriveByPreceeding(inp, marked_stop, current_segment, stop_time,
                       Drain(SliceIterator(it, from_inclusive, num_items)), 1, s1))

ArriveByScan(inp, marked_stop, s) ==
    ArriveByAlightings(inp, marked_stop, SegmentAt(s.segments, marked_stop.ID),
        Drain(NewSliceIterator(StopTimesByUniqueStopId(inp, marked_stop.ID), TRUE)),
        1, s)

(***************************************************************************)
(* The input family.  A network gives the stop times of up to four trips   *)
(* as rows <<stop, trip id, trip service id, stop sequence, trip number,   *)
(* position in trip>>, in input order (ascending stop sequence within a    *)
(* trip service), and its transfers as rows <<from, to, base time>>; a     *)
(* transfer takes its base time plus the walk time of the input.  Trip     *)
(* number n starts at base[n] + start[n]; it reaches its position p at     *)
(* start + 2p and leaves one second later, so times are monotone along     *)
(* every trip and arrival <= departure.                                    *)
(***************************************************************************)
Networks ==
    [ single |->
        [rows |-> << <<1, "A1", "A1", 5, 1, 0>>, <<4, "A1", "A1", 6, 1, 1>>,
                     <<1, "A2", "A2", 5, 2, 0>>, <<4, "A2", "A2", 6, 2, 1>> >>,
         base |-> <<0, 2>>, transfers |-> <<>>,
         from |-> <<1>>, to |-> <<4>>],
      line |->
        [rows |-> << <<1, "A", "A", 1, 1, 0>>, <<2, "A", "A", 2, 1, 1>>,
                     <<4, "A", "A", 3, 1, 2>> >>,
         base |-> <<0>>, transfers |-> <<>>,
         from |-> <<1>>, to |-> <<4, 2>>],
      days |->
        [rows |-> << <<1, "A", "A1", 1, 1, 0>>, <<2, "A", "A1", 2, 1, 1>>,
                     <<4, "A", "A1", 3, 1, 2>>,
                     <<1, "A", "A2", 1, 2, 0>>, <<2, "A", "A2", 2, 2, 1>>,
                     <<4, "A", "A2", 3, 2, 2>> >>,
         base |-> <<0, 1>>, transfers |-> <<>>,
         from |-> <<1, 2>>, to |-> <<4>>],
      chain |->
        [rows |-> << <<1, "A", "A", 1, 1, 0>>, <<2, "A", "A", 2, 1, 1>>,
                     <<3, "A", "A", 3, 1, 2>>,
                     <<2, "B", "B", 1, 2, 0>>, <<3, "B", "B", 2, 2, 1>>,
                     <<5, "B", "B", 3, 2, 2>>, <<6, "B", "B", 4, 2, 3>>,
                     <<7, "B", "B", 5, 2, 4>>,
                     <<3, "C", "C", 1, 3, 0>>, <<4, "C", "C", 2, 3, 1>>,
                     <<5, "C", "C", 3, 3, 2>> >>,
         base |-> <<0, 0, 1>>, transfers |-> <<>>,
         from |-> <<1>>, to |-> <<4>>],
      walk |->
        [rows |-> << <<1, "A", "A", 5, 1, 0>>, <<2, "A", "A", 6, 1, 1>>,
                     <<5, "A", "A", 7, 1, 2>>,
                     <<3, "C", "C", 8, 2, 0>>, <<4, "C", "C", 9, 2, 1>>,
                     <<5, "C", "C", 10, 2, 2>> >>,
         base |-> <<0, 1>>, transfers |-> << <<2, 3, 0>> >>,
         from |-> <<1>>, to |-> <<4>>],
      egress |->
        [rows |-> << <<1, "A", "A", 1, 1, 0>>, <<2, "A", "A", 2, 1, 1>>,
                     <<4, "A", "A", 3, 1, 2>>,
                     <<1, "B", "B", 1, 2, 0>>, <<4, "B", "B", 2, 2, 1>>,
                     <<5, "B", "B", 3, 2, 2>> >>,
         base |-> <<0, 0>>, transfers |-> << <<2, 4, 0>> >>,
         from |-> <<1>>, to |-> <<4>>],
      origins |->
        [rows |-> << <<2, "A", "A", 5, 1, 0>>, <<4, "A", "A", 6, 1, 1>>,
                     <<5, "A", "A", 7, 1, 2>>,
                     <<1, "B", "B", 1, 2, 0>>, <<2, "B", "B", 2, 2, 1>>,
                     <<4, "B", "B", 3, 2, 2>> >>,
         base |-> <<0, 0>>, transfers |-> << <<1, 2, 0>> >>,
         from |-> <<1, 2>>, to |-> <<4>>],
      stray |->
        [rows |-> << <<4, "B", "B", 1, 1, 0>>, <<5, "B", "B", 2, 1, 1>>,
                     <<3, "B", "B", 3, 1, 2>>,
                     <<1, "A", "A", 1, 2, 0>>, <<2, "A", "A", 2, 2, 1>>,
                     <<3, "A", "A", 3, 2, 2>> >>,
         base |-> <<0, 0>>, transfers |-> <<>>,
         from |-> <<1>>, to |-> <<4>>],
      hop |->
        [rows |-> << <<1, "A", "A", 1, 1, 0>>, <<2, "A", "A", 2, 1, 1>>,
                     <<3, "A", "A", 3, 1, 2>>,
                     <<5, "B", "B", 1, 2, 0>>, <<6, "B", "B", 2, 2, 1>>,
                     <<8, "B", "B", 3, 2, 2>>,
                     <<3, "C", "C", 1, 3, 0>>, <<7, "C", "C", 2, 3, 1>>,
                     <<8, "C", "C", 3, 3, 2>>,
                     <<7, "E", "E", 1, 4, 0>>, <<4, "E", "E", 2, 4, 1>>,
                     <<8, "E", "E", 3, 4, 2>> >>,
         base |-> <<0, 1, 3, 4>>, transfers |-> << <<2, 5, 0>>, <<6, 7, 0>> >>,
         from |-> <<1>>, to |-> <<4>>],
      multi |->
        [rows |-> << <<1, "A", "A", 5, 1, 0>>, <<3, "A", "A", 6, 1, 1>>,
                     <<3, "C", "C", 8, 2, 0>>, <<4, "C", "C", 9, 2, 1>> >>,
         base |-> <<0, 1>>, transfers |-> <<>>,
         from |-> <<1>>, to |-> <<4>>],
      manual |->
        [rows |-> << <<1, "A", "A", 5, 1, 0>>, <<2, "A", "A", 6, 1, 1>>,
                     <<3, "C", "C", 8, 2, 0>>, <<4, "C", "C", 9, 2, 1>> >>,
         base |-> <<0, 1>>, transfers |-> << <<2, 3, 0>> >>,
         from |-> <<1>>, to |-> <<4>>],
      nostart |->
        [rows |-> << <<2, "A1", "A1", 5, 1, 0>>, <<4, "A1", "A1", 6, 1, 1>>,
                     <<2, "A2", "A2", 5, 2, 0>>, <<4, "A2", "A2", 6, 2, 1>> >>,
         base |-> <<0, 2>>, transfers |-> << <<1, 2, 0>> >>,
         from |-> <<1, 2>>, to |-> <<4>>],
      nostart3 |->
        [rows |-> << <<2, "A1", "A1", 5, 1, 0>>, <<4, "A1", "A1", 6, 1, 1>>,
                     <<5, "A1", "A1", 7, 1, 2>>,
                     <<2, "A2", "A2", 5, 2, 0>>, <<4, "A2", "A2", 6, 2, 1>>,
                     <<5, "A2", "A2", 7, 2, 2>> >>,
         base |-> <<0, 2>>, transfers |-> << <<1, 2, 0>> >>,
         from |-> <<1, 2>>, to |-> <<4>>],
      both |->
        [rows |-> << <<1, "D", "D", 5, 1, 0>>, <<4, "D", "D", 6, 1, 1>>,
                     <<1, "S", "S", 5, 2, 0>>, <<2, "S", "S", 6, 2, 1>>,
                     <<2, "N", "N", 6, 3, 0>>, <<4, "N", "N", 7, 3, 1>> >>,
         base |-> <<2, 0, 1>>, transfers |-> <<>>,
         from |-> <<1>>, to |-> <<4>>],
      both3 |->
        [rows |-> << <<1, "D", "D", 5, 1, 0>>, <<5, "D", "D", 6, 1, 1>>,
                     <<4, "D", "D", 7, 1, 2>>,
                     <<1, "S", "S", 5, 2, 0>>, <<2, "S", "S", 6, 2, 1>>,
                     <<6, "S", "S", 7, 2, 2>>,
                     <<2, "N", "N", 6, 3, 0>>, <<4, "N", "N", 7, 3, 1>>,
                     <<6, "N", "N", 8, 3, 2>> >>,
         base |-> <<2, 0, 1>>, transfers |-> <<>>,
         from |-> <<1>>, to |-> <<4>>],
      long |->
        [rows |-> << <<1, "L", "L", 1, 1, 0>>, <<2, "L", "L", 2, 1, 1>>,
                     <<3, "L", "L", 3, 1, 2>>, <<4, "L", "L", 4, 1, 3>>,
                     <<5, "L", "L", 5, 1, 4>> >>,
         base |-> <<0>>, transfers |-> <<>>,
         from |-> <<2, 3>>, to |-> <<5>>],
      sparse |->
        [rows |-> << <<1, "S", "S", 5, 1, 0>>, <<2, "S", "S", 10, 1, 1>>,
                     <<4, "S", "S", 15, 1, 2>> >>,
         base |-> <<0>>, transfers |-> <<>>,
         from |-> <<1, 2>>, to |-> <<4>>],
      back |->
        [rows |-> << <<1, "A", "A", 1, 1, 0>>, <<2, "A", "A", 2, 1, 1>>,
                     <<4, "A", "A", 3, 1, 2>> >>,
         base |-> <<0>>, transfers |-> << <<2, 5, 0>> >>,
         from |-> <<1, 2>>, to |-> <<4>>] ]

NetworkNames == DOMAIN Networks

StopTimeOf(row, at) ==
    [UniqueStopID |-> row[1], UniqueTripID |-> row[2],
     UniqueTripServiceID |-> row[3], StopSequence |-> row[4],
     ArrivalTimeInSeconds |-> at, DepartureTimeInSeconds |-> at + 1]

TransferOf(row, walk) ==
    [FromUniqueStopID |-> row[1], ToUniqueStopID |-> row[2],
     MinimumTransferTimeInSeconds |-> row[3] + walk]

\* a slice holding elems the way the caller made it: with no spare capacity
\* (a literal, or make with the exact size) or grown by append
CallerSlice(elems, exact) ==
    IF exact THEN [arr |-> elems, len |-> Len(elems)] ELSE AppendedSlice(elems)

\* the precomputed indices a caller may pass along with the raw lists; each
\* holds the index lists the preparation would build
SuppliedTransfers(inp, exact) ==
    [id \in {inp.Transfers[i].FromUniqueStopID : i \in 1..Len(inp.Transfers)} |->
        CallerSlice(BuiltTransfers(inp, id), exact)]

SuppliedStopTimesByStop(inp, exact) ==
    [id \in {inp.StopTimes[i].UniqueStopID : i \in 1..Len(inp.StopTimes)} |->
        CallerSlice(BuiltStopTimesByStop(inp, id), exact)]

SuppliedStopTimesByTripService(inp, exact) ==
    [id \in {inp.StopTimes[i].UniqueTripServiceID : i \in 1..Len(inp.StopTimes)} |->
        CallerSlice(BuiltStopTimesByTripService(inp, id), exact)]

\* which indices the caller supplies and how it made their slices
NoneSupplied ==
    [transfers |-> FALSE, by_stop |-> FALSE, by_trip |-> FALSE, exact |-> FALSE]

SuppliedChoices ==
    {c \in [transfers : BOOLEAN, by_stop : BOOLEAN, by_trip : BOOLEAN,
            exact : BOOLEAN] :
       c.exact => (c.transfers \/ c.by_stop \/ c.by_trip)}

\* the networks searched with precomputed indices as well
PreparedNetworks == {"line", "walk"}

WithIndices(inp, c) ==
    [inp EXCEPT
       !.TransfersByUniqueStopId =
           IF c.transfers THEN <<SuppliedTransfers(inp, c.exact)>> ELSE <<>>,
       !.StopTimesByUniqueStopId =
           IF c.by_stop THEN <<SuppliedStopTimesByStop(inp, c.exact)>> ELSE <<>>,
       !.StopTimesByUniqueTripServiceId =
           IF c.by_trip THEN <<SuppliedStopTimesByTripService(inp, c.exact)>>
           ELSE <<>>]

\* SimpleRaptorInput
InputOf(net, start, walk, mode, time, maximum_transfers, hopping) ==
    [FromStops |-> net.from, ToStops |-> net.to,
     Transfers |-> [i \in 1..Len(net.transfers) |-> TransferOf(net.transfers[i], walk)],
     StopTimes |-> [i \in 1..Len(net.rows) |->
                      StopTimeOf(net.rows[i],
                                 net.base[net.rows[i][5]] + start[net.rows[i][5]]
                                   + 2 * net.rows[i][6])],
     Mode |-> mode, TimeInSeconds |-> time,
     MaximumTransfers |-> maximum_transfers, AllowTransferHopping |-> hopping,
     TransfersByUniqueStopId |-> <<>>, StopTimesByUniqueStopId |-> <<>>,
     StopTimesByUniqueTripServiceId |-> <<>>]

InputsOf(n) ==
    { WithIndices(InputOf(Networks[n], start, walk, mode, time,
                          maximum_transfers, hopping), c) :
        start \in [1..Len(Networks[n].base) -> 0..MaxStart],
        walk \in 0..MaxWalk,
        mode \in {RaptorModeDepartAt, RaptorModeArriveBy, RaptorModeUnset},
        time \in 0..MaxRef,
        maximum_transfers \in 0..MaxTransfers,
        hopping \in BOOLEAN,
        c \in IF n \in PreparedNetworks THEN SuppliedChoices ELSE {NoneSupplied} }

(***************************************************************************)
(* The state machine: one search call.                                     *)
(***************************************************************************)
VARIABLES input, segments, stops_marked_for_round, pending,
          stops_marked_for_next_round, trips_scanned_from_sequence,
          potential_journeys_found, potential_journey_fingerprints, overrun,
          scans, skips, mark_writes, round, pc

\* one SliceIterator in the hands of a caller: the iterator, the values Next
\* has returned, how often HasNext answered true, the sub-iterator last cut
\* from it with the range asked for, the value of a panic, and the caller's
\* position in the HasNext/Next loop
VARIABLES iterator, yielded, answered_true, sub_iterator, sub_range,
          panic_value, it_pc

\* one caller of GetTimePartition: the timestamp and the interval it passes,
\* and the results of the call with upper = false and with upper = true once
\* they are made
VARIABLES call_timestamp, call_interval, lower_result, upper_result

search_vars == <<input, segments, stops_marked_for_round, pending,
                 stops_marked_for_next_round, trips_scanned_from_sequence,
                 potential_journeys_found, potential_journey_fingerprints,
                 overrun, scans, skips, mark_writes, round, pc>>

iterator_vars == <<iterator, yielded, answered_true, sub_iterator, sub_range,
                   panic_value, it_pc>>

partition_vars == <<call_timestamp, call_interval, lower_result, upper_result>>

vars == <<search_vars, iterator_vars, partition_vars>>

\* no call of GetTimePartition is under way
PartitionIdle ==
    /\ call_timestamp = 0
    /\ call_interval = 1
    /\ lower_result = <<>>
    /\ upper_result = <<>>

\* no iterator is handed out while a search runs
IteratorIdle ==
    /\ iterator = NewSliceIterator([arr |-> <<>>, len |-> 0], FALSE)
    /\ yielded = <<>>
    /\ answered_true = 0
    /\ sub_iterator = <<>>
    /\ sub_range = <<>>
    /\ panic_value = <<>>
    /\ it_pc = "idle"

\* the terminal stops a search starts from
StartStops(inp) ==
    IF inp.Mode = RaptorModeDepartAt THEN inp.FromStops ELSE inp.ToStops

InitialSegments(inp) ==
    [id \in {StartStops(inp)[i] : i \in 1..Len(StartStops(inp))} |->
        RoundSegment(id, inp.TimeInSeconds, <<>>)]

InitialMarks(inp) ==
    [id \in {StartStops(inp)[i] : i \in 1..Len(StartStops(inp))} |->
        MarkedStop(id, RaptorMarkedStopSourceArrival)]

Init ==
    /\ \E n \in NetworkNames : input \in InputsOf(n)
    /\ segments = InitialSegments(input)
    /\ stops_marked_for_round = InitialMarks(input)
    /\ pending = {}
    /\ stops_marked_for_next_round = EmptyMap
    /\ trips_scanned_from_sequence = EmptyMap
    /\ potential_journeys_found = <<>>
    /\ potential_journey_fingerprints = {}
    /\ overrun = FALSE
    /\ scans = <<>>
    /\ skips = <<>>
    /\ mark_writes = <<>>
    /\ round = 0
    /\ pc = "loop"
    /\ IteratorIdle
    /\ PartitionIdle

SearchState ==
    [segments |-> segments, next |-> stops_marked_for_next_round,
     scanned |-> trips_scanned_from_sequence, found |-> potential_journeys_found,
     fingerprints |-> potential_journey_fingerprints, panicked |-> FALSE,
     overrun |-> overrun, scans |-> <<>>, skips |-> <<>>,
     mark_writes |-> mark_writes]

Store(s) ==
    /\ segments' = s.segments
    /\ stops_marked_for_next_round' = s.next
    /\ trips_scanned_from_sequence' = s.scanned
    /\ potential_journeys_found' = s.found
    /\ potential_journey_fingerprints' = s.fingerprints
    /\ overrun' = s.overrun
    /\ scans' = s.scans
    /\ skips' = s.skips
    /\ mark_writes' = s.mark_writes
    /\ pc' = IF s.panicked THEN "panic" ELSE "scan"

IsDepartAt == input.Mode = RaptorModeDepartAt

\* for range input.MaximumTransfers: the next round starts
BeginRound ==
    /\ pc = "loop"
    /\ round < input.MaximumTransfers
    /\ stops_marked_for_next_round' = EmptyMap
    /\ pending' = DOMAIN stops_marked_for_round
    /\ pc' = "scan"
    /\ UNCHANGED <<input, segments, stops_marked_for_round,
                   trips_scanned_from_sequence, potential_journeys_found,
                   potential_journey_fingerprints, overrun, scans, skips, mark_writes, round>>
    /\ UNCHANGED <<iterator_vars, partition_vars>>

\* the range over stops_marked_for_round visits the keys in any order
ScanStop(id, s) ==
    /\ pending' = pending \ {id}
    /\ Store(s)
    /\ UNCHANGED <<input, stops_marked_for_round, round>>
    /\ UNCHANGED <<iterator_vars, partition_vars>>

\* stops_marked_for_round = stops_marked_for_next_round
EndRound ==
    /\ pc = "scan"
    /\ pending = {}
    /\ stops_marked_for_round' = stops_marked_for_next_round
    /\ round' = round + 1
    /\ scans' = <<>>
    /\ skips' = <<>>
    /\ mark_writes' = <<>>
    /\ pc' = "loop"
    /\ UNCHANGED <<input, segments, pending, stops_marked_for_next_round,
                   trips_scanned_from_sequence, potential_journeys_found,
                   potential_journey_fingerprints, overrun>>
    /\ UNCHANGED <<iterator_vars, partition_vars>>

\* return potential_journeys_found
Return ==
    /\ pc = "loop"
    /\ round = input.MaximumTransfers
    /\ pc' = "done"
    /\ UNCHANGED <<input, segments, stops_marked_for_round, pending,
                   stops_marked_for_next_round, trips_scanned_from_sequence,
                   potential_journeys_found, potential_journey_fingerprints,
                   overrun, scans, skips, mark_writes, round>>
    /\ UNCHANGED <<iterator_vars, partition_vars>>

DepartAtBeginRound == IsDepartAt /\ BeginRound

DepartAtScanStop ==
    /\ IsDepartAt
    /\ pc = "scan"
    /\ \E id \in pending :
          ScanStop(id, DepartAtScan(input, stops_marked_for_round[id], SearchState))

DepartAtEndRound == IsDepartAt /\ EndRound

DepartAtReturn == IsDepartAt /\ Return

ArriveByBeginRound == ~IsDepartAt /\ BeginRound

ArriveByScanStop ==
    /\ ~IsDepartAt
    /\ pc = "scan"
    /\ \E id \in pending :
          ScanStop(id, ArriveByScan(input, stops_marked_for_round[id], SearchState))

ArriveByEndRound == ~IsDepartAt /\ EndRound

ArriveByReturn == ~IsDepartAt /\ Return

Next ==
    \/ DepartAtBeginRound
    \/ DepartAtScanStop
    \/ DepartAtEndRound
    \/ DepartAtReturn
    \/ ArriveByBeginRound
    \/ ArriveByScanStop
    \/ ArriveByEndRound
    \/ ArriveByReturn

Spec == Init /\ [][Next]_vars

(***************************************************************************)
(* The state machine of one SliceIterator: a caller makes an iterator over *)
(* a slice, runs the HasNext/Next loop on it, cuts sub-iterators from it   *)
(* at any point of the loop, and loops over a sub-iterator in turn.        *)
(***************************************************************************)
PanicNext == "Next always has to be pre-guarded by HasNext"

PanicSliceBounds == "slice bounds out of range"

SlicesUpTo(n) ==
    { CallerSlice(elems, exact) :
        elems \in UNION {[1..k -> 0..MaxElem] : k \in 0..n}, exact \in BOOLEAN }

\* no search runs while the iterator is exercised
SearchIdle ==
    /\ input = InputOf(Networks["single"],
                       [i \in 1..Len(Networks["single"].base) |-> 0], 0,
                       RaptorModeDepartAt, 0, 0, FALSE)
    /\ segments = InitialSegments(input)
    /\ stops_marked_for_round = InitialMarks(input)
    /\ pending = {}
    /\ stops_marked_for_next_round = EmptyMap
    /\ trips_scanned_from_sequence = EmptyMap
    /\ potential_journeys_found = <<>>
    /\ potential_journey_fingerprints = {}
    /\ overrun = FALSE
    /\ scans = <<>>
    /\ skips = <<>>
    /\ mark_writes = <<>>
    /\ round = 0
    /\ pc = "idle"

IteratorInit ==
    /\ SearchIdle
    /\ PartitionIdle
    /\ \E data \in SlicesUpTo(MaxLen), reverse \in BOOLEAN :
          iterator = NewSliceIterator(data, reverse)
    /\ yielded = <<>>
    /\ answered_true = 0
    /\ sub_iterator = <<>>
    /\ sub_range = <<>>
    /\ panic_value = <<>>
    /\ it_pc = "has_next"

\* the loop condition: it.HasNext()
IteratorHasNext ==
    /\ it_pc = "has_next"
    /\ answered_true' = IF HasNext(iterator) THEN answered_true + 1
                                             ELSE answered_true
    /\ it_pc' = IF HasNext(iterator) THEN "next" ELSE "exhausted"
    /\ UNCHANGED <<iterator, yielded, sub_iterator, sub_range, panic_value>>
    /\ UNCHANGED <<search_vars, partition_vars>>

\* it.Next(), in the loop body or after the loop has ended
IteratorNext ==
    /\ it_pc \in {"next", "exhausted"}
    /\ IF NextOk(iterator)
       THEN /\ yielded' = Append(yielded, NextVal(iterator))
            /\ iterator' = NextIt(iterator)
            /\ it_pc' = "has_next"
            /\ UNCHANGED panic_value
       ELSE /\ panic_value' = <<PanicNext>>
            /\ it_pc' = "panic"
            /\ UNCHANGED <<iterator, yielded>>
    /\ UNCHANGED <<answered_true, sub_iterator, sub_range>>
    /\ UNCHANGED <<search_vars, partition_vars>>

\* it.SliceIterator(from_inclusive, num_items), at any point of the loop
IteratorSliceIterator ==
    /\ it_pc \in {"has_next", "next", "exhausted"}
    /\ \E from_inclusive \in 0..(MaxLen + 1), num_items \in 0..(MaxLen + 1) :
          /\ sub_range' = <<from_inclusive, num_items>>
          /\ IF SliceIteratorOk(iterator, from_inclusive, num_items)
             THEN /\ sub_iterator' =
                        <<SliceIterator(iterator, from_inclusive, num_items)>>
                  /\ UNCHANGED <<panic_value, it_pc>>
             ELSE /\ panic_value' = <<PanicSliceBounds>>
                  /\ it_pc' = "panic"
                  /\ UNCHANGED sub_iterator
    /\ UNCHANGED <<iterator, yielded, answered_true>>
    /\ UNCHANGED <<search_vars, partition_vars>>

\* the caller starts the loop over the sub-iterator it was given
IterateSubIterator ==
    /\ it_pc \in {"has_next", "next", "exhausted"}
    /\ sub_iterator # <<>>
    /\ iterator' = sub_iterator[1]
    /\ yielded' = <<>>
    /\ answered_true' = 0
    /\ sub_iterator' = <<>>
    /\ sub_range' = <<>>
    /\ it_pc' = "has_next"
    /\ UNCHANGED panic_value
    /\ UNCHANGED <<search_vars, partition_vars>>

IteratorStep ==
    \/ IteratorHasNext
    \/ IteratorNext
    \/ IteratorSliceIterator
    \/ IterateSubIterator

IteratorSpec == IteratorInit /\ [][IteratorStep]_vars

(***************************************************************************)
(* GetTimePartition (utils.go).  TimestampInSeconds is int64; the values   *)
(* below stay far inside its range, so no operation wraps.                 *)
(***************************************************************************)
\* Go's % on integers: the remainder of the truncated division, with the
\* sign of the dividend
GoRem(a, b) == IF a >= 0 THEN a % b ELSE -((-a) % b)

\* Go's / on integers: truncated towards zero
GoQuot(a, b) == IF a >= 0 THEN a \div b ELSE -((-a) \div b)

GetTimePartition(timestamp, interval, upper) ==
    LET lower == timestamp - GoRem(timestamp, interval)
    IN  IF ~upper \/ lower = timestamp
        THEN lower
        ELSE (GoQuot(lower, interval) + 1) * interval

PartitionInit ==
    /\ SearchIdle
    /\ IteratorIdle
    /\ call_timestamp \in (-MaxTimestamp)..MaxTimestamp
    /\ call_interval \in 1..MaxInterval
    /\ lower_result = <<>>
    /\ upper_result = <<>>

\* GetTimePartition(ts, interval, false)
PartitionLower ==
    /\ lower_result = <<>>
    /\ lower_result' = <<GetTimePartition(call_timestamp, call_interval, FALSE)>>
    /\ UNCHANGED <<call_timestamp, call_interval, upper_result>>
    /\ UNCHANGED <<search_vars, iterator_vars>>

\* GetTimePartition(ts, interval, true)
PartitionUpper ==
    /\ upper_result = <<>>
    /\ upper_result' = <<GetTimePartition(call_timestamp, call_interval, TRUE)>>
    /\ UNCHANGED <<call_timestamp, call_interval, lower_result>>
    /\ UNCHANGED <<search_vars, iterator_vars>>

PartitionStep ==
    \/ PartitionLower
    \/ PartitionUpper

PartitionSpec == PartitionInit /\ [][PartitionStep]_vars

(***************************************************************************)
(* A whole search as a function of its input, SimpleRaptor: the rounds of  *)
(* the search with the marked stops of every round visited in ascending id *)
(* order, one of the orders the range over the map can take.               *)
(***************************************************************************)
ScanOf(inp, marked_stop, s) ==
    IF inp.Mode = RaptorModeDepartAt
    THEN DepartAtScan(inp, marked_stop, s)
    ELSE ArriveByScan(inp, marked_stop, s)

SmallestOf(ids) == CHOOSE id \in ids : \A other \in ids : id <= other

RECURSIVE ScanAscending(_, _, _, _)
ScanAscending(inp, marks, todo, s) ==
    IF todo = {} \/ s.panicked THEN s
    ELSE ScanAscending(inp, marks, todo \ {SmallestOf(todo)},
                       ScanOf(inp, marks[SmallestOf(todo)], s))

RECURSIVE RoundsAscending(_, _, _, _)
RoundsAscending(inp, r, marks, s) ==
    IF r = inp.MaximumTransfers \/ s.panicked THEN s
    ELSE LET s1 == ScanAscending(inp, marks, DOMAIN marks,
                                 [s EXCEPT !.next = EmptyMap])
         IN  RoundsAscending(inp, r + 1, s1.next, s1)

SimpleRaptor(inp) ==
    RoundsAscending(inp, 0, InitialMarks(inp),
        [segments |-> InitialSegments(inp), next |-> EmptyMap,
         scanned |-> EmptyMap, found |-> <<>>, fingerprints |-> {},
         panicked |-> FALSE, overrun |-> FALSE, scans |-> <<>>,
         skips |-> <<>>, mark_writes |-> <<>>])

(***************************************************************************)
(* Properties.                                                             *)
(***************************************************************************)
Returned == pc = "done"

Journeys == {potential_journeys_found[i] : i \in 1..Len(potential_journeys_found)}

InVehicleLegs(legs) == Cardinality({i \in 1..Len(legs) : legs[i].ViaTrip # <<>>})

\* C1: every journey a search returns has at most maximum_transfers
\* in-vehicle legs, whatever the order in which the marked stops of a
\* round are processed.
C1_AtMostNInVehicleLegs ==
    Returned => \A j \in Journeys : InVehicleLegs(j.Legs) <= input.MaximumTransfers

LegTimesConsistent(legs) ==
    /\ \A i \in 1..Len(legs) :
          legs[i].DepartureTimeInSecondsFromUniqueStopID
            <= legs[i].ArrivalTimeInSecondsToUniqueStopID
    /\ \A i \in 1..(Len(legs) - 1) :
          legs[i].ArrivalTimeInSecondsToUniqueStopID
            <= legs[i + 1].DepartureTimeInSecondsFromUniqueStopID

\* C2: in every returned journey each leg departs no later than it arrives
\* and each leg arrives no later than the next leg departs (the inputs of
\* the family all have monotone stop times and non-negative transfer times).
C2_TimeConsistency ==
    Returned => \A j \in Journeys : LegTimesConsistent(j.Legs)

BoundaryLegsInVehicle(legs) ==
    /\ Len(legs) > 0
    /\ legs[1].ViaTrip # <<>>
    /\ legs[Len(legs)].ViaTrip # <<>>

\* C3: every journey in the result, at every point of the search, has a
\* non-empty legs sequence that starts and ends with an in-vehicle leg.
C3_BoundaryLegsInVehicle ==
    \A j \in Journeys : BoundaryLegsInVehicle(j.Legs)

\* a journey with a walking leg between two rides has been returned
C3_Witness ==
    /\ Returned
    /\ \E j \in Journeys :
          /\ Len(j.Legs) >= 3
          /\ \E i \in 1..Len(j.Legs) : j.Legs[i].ViaTrip = <<>>

\* C4: in depart-at mode every journey of the result departs at or after
\* the reference time.
C4_DepartureNotBeforeReference ==
    IsDepartAt =>
        \A j \in Journeys : j.DepartureTimeInSeconds >= input.TimeInSeconds

\* a depart-at journey has been returned from an input in which a trip
\* leaves an origin before the reference time
C4_Witness ==
    /\ Returned
    /\ IsDepartAt
    /\ Journeys # {}
    /\ \E i \in 1..Len(input.StopTimes) :
          /\ input.StopTimes[i].UniqueStopID \in FromStopsByUniqueStopId(input)
          /\ input.StopTimes[i].DepartureTimeInSeconds < input.TimeInSeconds

\* C9: any two journeys at different positions of the result have
\* different fingerprints, after every emission.
C9_FingerprintsDiffer ==
    \A i, k \in 1..Len(potential_journeys_found) :
        i # k => GetFingerPrint(potential_journeys_found[i].Legs)
                   # GetFingerPrint(potential_journeys_found[k].Legs)

\* two journeys have been returned
C9_Witness == Returned /\ Len(potential_journeys_found) >= 2

\* C5: in arrive-by mode every journey of the result arrives at or before
\* the reference time.
C5_ArrivalNotAfterReference ==
    ~IsDepartAt =>
        \A j \in Journeys : j.ArrivalTimeInSeconds <= input.TimeInSeconds

\* an arrive-by search has put a journey into its result
C5_Witness == ~IsDepartAt /\ Journeys # {}

\* an arrive-by search never gets past its first alighting: the result is
\* empty in every state
ArriveByFindsNothing == ~IsDepartAt => Journeys = {}

(***************************************************************************)
(* The earliest arrival at a destination of an itinerary of at most n      *)
(* rides that boards its first ride at an origin at or after the reference *)
(* time, may walk one transfer between two rides, and ends with a ride.    *)
(***************************************************************************)
StopIds(inp) == {inp.StopTimes[i].UniqueStopID : i \in 1..Len(inp.StopTimes)}

MinOf(times) == CHOOSE t \in times : \A u \in times : t <= u

\* the arrival times at stop id of one ride boarded at a stop of ready, no
\* earlier than the ready time of that stop
RideArrivals(inp, ready, id) ==
    {inp.StopTimes[k].ArrivalTimeInSeconds :
       k \in {k \in 1..Len(inp.StopTimes) :
                /\ inp.StopTimes[k].UniqueStopID = id
                /\ \E b \in 1..Len(inp.StopTimes) :
                      /\ inp.StopTimes[b].UniqueTripServiceID
                           = inp.StopTimes[k].UniqueTripServiceID
                      /\ inp.StopTimes[b].StopSequence < inp.StopTimes[k].StopSequence
                      /\ inp.StopTimes[b].UniqueStopID \in DOMAIN ready
                      /\ inp.StopTimes[b].DepartureTimeInSeconds
                           >= ready[inp.StopTimes[b].UniqueStopID]}}

RideFrom(inp, ready) ==
    [id \in {id \in StopIds(inp) : RideArrivals(inp, ready, id) # {}} |->
        MinOf(RideArrivals(inp, ready, id))]

\* the ready times after a ride: at the stop reached, or one transfer away
WalkArrivals(inp, reached, id) ==
    (IF id \in DOMAIN reached THEN {reached[id]} ELSE {}) \cup
    {reached[inp.Transfers[t].FromUniqueStopID]
       + inp.Transfers[t].MinimumTransferTimeInSeconds :
       t \in {t \in 1..Len(inp.Transfers) :
                /\ inp.Transfers[t].ToUniqueStopID = id
                /\ inp.Transfers[t].FromUniqueStopID \in DOMAIN reached}}

AfterWalk(inp, reached) ==
    [id \in {id \in StopIds(inp) : WalkArrivals(inp, reached, id) # {}} |->
        MinOf(WalkArrivals(inp, reached, id))]

EarlierOf(before, again) ==
    [id \in (DOMAIN before) \cup (DOMAIN again) |->
        IF id \notin DOMAIN again THEN before[id]
        ELSE IF id \notin DOMAIN before THEN again[id]
        ELSE Min(before[id], again[id])]

\* the earliest arrival at every stop reachable with 1..n rides
RECURSIVE ReachedByRides(_, _)
ReachedByRides(inp, n) ==
    IF n = 1
    THEN RideFrom(inp, [id \in FromStopsByUniqueStopId(inp) |-> inp.TimeInSeconds])
    ELSE EarlierOf(ReachedByRides(inp, n - 1),
                   RideFrom(inp, AfterWalk(inp, ReachedByRides(inp, n - 1))))

\* the arrival times at the destinations, empty when no itinerary is feasible
FeasibleArrivals(inp) ==
    IF inp.MaximumTransfers = 0 THEN {}
    ELSE {ReachedByRides(inp, inp.MaximumTransfers)[id] :
            id \in ToStopsByUniqueStopId(inp)
                     \cap DOMAIN ReachedByRides(inp, inp.MaximumTransfers)}

\* C6: a depart-at search that returns, on an input with a feasible
\* itinerary, returns a non-empty result whose earliest arrival is the
\* earliest arrival of any feasible itinerary.
C6_EarliestArrivalFound ==
    (Returned /\ IsDepartAt /\ FeasibleArrivals(input) # {}) =>
        /\ Journeys # {}
        /\ MinOf({j.ArrivalTimeInSeconds : j \in Journeys})
             = MinOf(FeasibleArrivals(input))

\* C7: the set of journeys a search returns is the same for every order in
\* which the marked stops of a round are visited: it is the set the search
\* returns when it visits them in ascending order.
C7_SameJourneysForEveryOrder ==
    (Returned /\ ~SimpleRaptor(input).panicked) =>
        Journeys = {SimpleRaptor(input).found[i] :
                      i \in 1..Len(SimpleRaptor(input).found)}

\* C8: a search on a valid input never panics and never asks the iterator
\* for a sub-range outside its parent's elements.
C8_NoPreconditionViolation == pc # "panic" /\ ~overrun

FingerPrintsOf(found) == {GetFingerPrint(found[i].Legs) : i \in 1..Len(found)}

\* C10: the fingerprints returned without transfer hopping are among those
\* returned for the same input with transfer hopping.
C10_HoppingGivesSuperset ==
    LET hopping == SimpleRaptor([input EXCEPT !.AllowTransferHopping = TRUE])
    IN  (Returned /\ ~input.AllowTransferHopping /\ ~hopping.panicked) =>
            FingerPrintsOf(potential_journeys_found)
              \subseteq FingerPrintsOf(hopping.found)


HasSupplied(inp) ==
    \/ inp.TransfersByUniqueStopId # <<>>
    \/ inp.StopTimesByUniqueStopId # <<>>
    \/ inp.StopTimesByUniqueTripServiceId # <<>>

\* the same raw lists with no precomputed index
Unprepared(inp) ==
    [inp EXCEPT !.TransfersByUniqueStopId = <<>>,
                !.StopTimesByUniqueStopId = <<>>,
                !.StopTimesByUniqueTripServiceId = <<>>]

\* what the scan of one marked stop shows of the search to its caller: a
\* panic, or the journeys found so far
Outcome(s) ==
    [panicked |-> s.panicked, journeys |-> {s.found[i] : i \in 1..Len(s.found)}]

\* C11: a search given precomputed indices that hold the index lists the
\* preparation would build, in any combination of supplied and missing,
\* goes as the search given none of them goes when both visit the marked
\* stops in the same order: the scan of every marked stop panics in both or
\* in neither and leaves the same set of journeys.
C11_SameJourneysWithSuppliedIndices ==
    (pc = "scan" /\ HasSupplied(input)) =>
        \A id \in pending :
            Outcome(ScanOf(input, stops_marked_for_round[id], SearchState))
              = Outcome(ScanOf(Unprepared(input), stops_marked_for_round[id],
                               SearchState))

\* the slices of the supplied indices have the capacity append gives them
SuppliedAsBuilt(inp) ==
    /\ inp.StopTimesByUniqueStopId # <<>> =>
          inp.StopTimesByUniqueStopId[1] = SuppliedStopTimesByStop(inp, FALSE)
    /\ inp.StopTimesByUniqueTripServiceId # <<>> =>
          inp.StopTimesByUniqueTripServiceId[1]
            = SuppliedStopTimesByTripService(inp, FALSE)

\* with supplied slices of the capacity the preparation's own would have,
\* every scan leaves the same search state with and without them
SameScanWithBuiltCapacity ==
    (pc = "scan" /\ HasSupplied(input) /\ SuppliedAsBuilt(input)) =>
        \A id \in pending :
            ScanOf(input, stops_marked_for_round[id], SearchState)
              = ScanOf(Unprepared(input), stops_marked_for_round[id], SearchState)


NoAdjacentWalks(legs) ==
    \A i \in 1..(Len(legs) - 1) :
        legs[i].ViaTrip # <<>> \/ legs[i + 1].ViaTrip # <<>>

\* C12: without transfer hopping no journey of the result, in either mode,
\* has two adjacent legs that are both walks.
C12_NoAdjacentWalksWithoutHopping ==
    ~input.AllowTransferHopping =>
        \A j \in Journeys : NoAdjacentWalks(j.Legs)

\* a search without transfer hopping has returned a journey that walks
C12_Witness ==
    /\ Returned
    /\ ~input.AllowTransferHopping
    /\ \E j \in Journeys : \E i \in 1..Len(j.Legs) : j.Legs[i].ViaTrip = <<>>

\* with transfer hopping the same holds: a walk is only ever recorded right
\* after a ride
NoAdjacentWalksWithHopping ==
    input.AllowTransferHopping =>
        \A j \in Journeys : NoAdjacentWalks(j.Legs)


(***************************************************************************)
(* The scenarios of the unit tests, over every input of the family that    *)
(* has their shape.                                                        *)
(***************************************************************************)
StopTimeIndices(inp) == 1..Len(inp.StopTimes)

\* stop time k is a later stop of the trip service of stop time b
RidesTo(inp, b, k) ==
    /\ inp.StopTimes[b].UniqueTripServiceID = inp.StopTimes[k].UniqueTripServiceID
    /\ inp.StopTimes[b].StopSequence < inp.StopTimes[k].StopSequence

\* the in-vehicle leg boarded at stop time b and left at stop time k
IsRide(leg, inp, b, k) ==
    /\ leg.ViaTrip # <<>>
    /\ leg.ViaTrip[1].UniqueTripID = inp.StopTimes[b].UniqueTripID
    /\ leg.FromUniqueStopID = inp.StopTimes[b].UniqueStopID
    /\ leg.ToUniqueStopID = inp.StopTimes[k].UniqueStopID
    /\ leg.DepartureTimeInSecondsFromUniqueStopID
         = inp.StopTimes[b].DepartureTimeInSeconds
    /\ leg.ArrivalTimeInSecondsToUniqueStopID
         = inp.StopTimes[k].ArrivalTimeInSeconds

TransferMentions(inp, id) ==
    \E t \in 1..Len(inp.Transfers) :
        \/ inp.Transfers[t].FromUniqueStopID = id
        \/ inp.Transfers[t].ToUniqueStopID = id

\* the stop times a journey can start at: at an origin, leaving at or after
\* the reference time
Boardings(inp) ==
    {b \in StopTimeIndices(inp) :
        /\ inp.StopTimes[b].UniqueStopID \in FromStopsByUniqueStopId(inp)
        /\ inp.StopTimes[b].DepartureTimeInSeconds >= inp.TimeInSeconds}

\* the later stop times of the trip service of stop time b
Alightings(inp, b) == {k \in StopTimeIndices(inp) : RidesTo(inp, b, k)}

\* the later stop times of the trip service of stop time b at a destination
Arrivals(inp, b) ==
    {k \in Alightings(inp, b) :
        inp.StopTimes[k].UniqueStopID \in ToStopsByUniqueStopId(inp)}

\* the stop times at stop id that leave at or after time ready
Departures(inp, id, ready) ==
    {c \in StopTimeIndices(inp) :
        /\ inp.StopTimes[c].UniqueStopID = id
        /\ inp.StopTimes[c].DepartureTimeInSeconds >= ready}

\* the search has ended, by returning or by panicking
Ended == pc \in {"done", "panic"}

\* trip A boarded at ao (an origin, at or after the reference time) reaches
\* X at ax, a different trip C leaves X at cx, not before A arrives, and
\* reaches a destination at cd; no transfer row mentions X
TwoRidesThrough(inp, ao, ax, cx, cd) ==
    /\ inp.StopTimes[ao].UniqueStopID \in FromStopsByUniqueStopId(inp)
    /\ inp.StopTimes[ao].DepartureTimeInSeconds >= inp.TimeInSeconds
    /\ RidesTo(inp, ao, ax)
    /\ inp.StopTimes[cx].UniqueStopID = inp.StopTimes[ax].UniqueStopID
    /\ inp.StopTimes[cx].UniqueTripID # inp.StopTimes[ao].UniqueTripID
    /\ inp.StopTimes[cx].DepartureTimeInSeconds
         >= inp.StopTimes[ax].ArrivalTimeInSeconds
    /\ RidesTo(inp, cx, cd)
    /\ inp.StopTimes[cd].UniqueStopID \in ToStopsByUniqueStopId(inp)
    /\ ~TransferMentions(inp, inp.StopTimes[ax].UniqueStopID)

HasTwoRideJourney(inp, ao, ax, cx, cd) ==
    \E j \in Journeys :
        /\ Len(j.Legs) = 2
        /\ IsRide(j.Legs[1], inp, ao, ax)
        /\ IsRide(j.Legs[2], inp, cx, cd)
        /\ j.ArrivalTimeInSeconds = inp.StopTimes[cd].ArrivalTimeInSeconds

\* C13: a depart-at search with at least two rounds, on an input where a
\* trip A runs from an origin to a stop X and a different trip C leaves X
\* no earlier and reaches a destination, and no transfer row mentions X,
\* returns, and its result holds the journey of exactly two in-vehicle
\* legs A origin->X, C X->destination, arriving when C does.
C13_TwoRidesThroughSharedStop ==
    (Ended /\ IsDepartAt /\ input.MaximumTransfers >= 2) =>
        \A ao \in Boardings(input) : \A ax \in Alightings(input, ao) :
          \A cx \in Departures(input, input.StopTimes[ax].UniqueStopID,
                                input.StopTimes[ax].ArrivalTimeInSeconds) :
            \A cd \in Arrivals(input, cx) :
            TwoRidesThrough(input, ao, ax, cx, cd) =>
                (Returned /\ HasTwoRideJourney(input, ao, ax, cx, cd))

\* the same of the searches that return
TwoRidesFoundWhenReturned ==
    (Returned /\ IsDepartAt /\ input.MaximumTransfers >= 2) =>
        \A ao \in Boardings(input) : \A ax \in Alightings(input, ao) :
          \A cx \in Departures(input, input.StopTimes[ax].UniqueStopID,
                                input.StopTimes[ax].ArrivalTimeInSeconds) :
            \A cd \in Arrivals(input, cx) :
            TwoRidesThrough(input, ao, ax, cx, cd) =>
                HasTwoRideJourney(input, ao, ax, cx, cd)


\* the walking leg along transfer row t, left when stop time ax arrives
IsWalk(leg, inp, ax, t) ==
    /\ leg.ViaTrip = <<>>
    /\ leg.FromUniqueStopID = inp.Transfers[t].FromUniqueStopID
    /\ leg.ToUniqueStopID = inp.Transfers[t].ToUniqueStopID
    /\ leg.DepartureTimeInSecondsFromUniqueStopID
         = inp.StopTimes[ax].ArrivalTimeInSeconds
    /\ leg.ArrivalTimeInSecondsToUniqueStopID
         = inp.StopTimes[ax].ArrivalTimeInSeconds
             + inp.Transfers[t].MinimumTransferTimeInSeconds

\* trip A boarded at ao (an origin, at or after the reference time) reaches
\* J at ax, transfer row t walks J->H, trip C leaves H at cx, not before the
\* walk ends, and reaches a destination at cd
RideWalkRide(inp, ao, ax, t, cx, cd) ==
    /\ inp.StopTimes[ao].UniqueStopID \in FromStopsByUniqueStopId(inp)
    /\ inp.StopTimes[ao].DepartureTimeInSeconds >= inp.TimeInSeconds
    /\ RidesTo(inp, ao, ax)
    /\ inp.Transfers[t].FromUniqueStopID = inp.StopTimes[ax].UniqueStopID
    /\ inp.StopTimes[cx].UniqueStopID = inp.Transfers[t].ToUniqueStopID
    /\ inp.StopTimes[cx].UniqueTripID # inp.StopTimes[ao].UniqueTripID
    /\ inp.StopTimes[cx].DepartureTimeInSeconds
         >= inp.StopTimes[ax].ArrivalTimeInSeconds
              + inp.Transfers[t].MinimumTransferTimeInSeconds
    /\ RidesTo(inp, cx, cd)
    /\ inp.StopTimes[cd].UniqueStopID \in ToStopsByUniqueStopId(inp)

HasRideWalkRideJourney(inp, ao, ax, t, cx, cd) ==
    \E j \in Journeys :
        /\ Len(j.Legs) = 3
        /\ IsRide(j.Legs[1], inp, ao, ax)
        /\ IsWalk(j.Legs[2], inp, ax, t)
        /\ IsRide(j.Legs[3], inp, cx, cd)
        /\ j.ArrivalTimeInSeconds = inp.StopTimes[cd].ArrivalTimeInSeconds

\* C14: a depart-at search with at least two rounds, on an input where a
\* trip A runs from an origin to a stop J, a transfer walks J->H and a trip
\* C leaves H no earlier than the walk ends and reaches a destination,
\* returns, and its result holds the journey of exactly three legs ride A,
\* walk J->H, ride C, arriving when C does; with and without hopping.
C14_RideWalkRide ==
    (Ended /\ IsDepartAt /\ input.MaximumTransfers >= 2) =>
        \A ao \in Boardings(input) : \A ax \in Alightings(input, ao) :
          \A t \in 1..Len(input.Transfers) :
            \A cx \in Departures(input, input.Transfers[t].ToUniqueStopID,
                                  input.StopTimes[ax].ArrivalTimeInSeconds) :
              \A cd \in Arrivals(input, cx) :
                RideWalkRide(input, ao, ax, t, cx, cd) =>
                    (Returned /\ HasRideWalkRideJourney(input, ao, ax, t, cx, cd))

\* the same of the searches that return
RideWalkRideFoundWhenReturned ==
    (Returned /\ IsDepartAt /\ input.MaximumTransfers >= 2) =>
        \A ao \in Boardings(input) : \A ax \in Alightings(input, ao) :
          \A t \in 1..Len(input.Transfers) :
            \A cx \in Departures(input, input.Transfers[t].ToUniqueStopID,
                                  input.StopTimes[ax].ArrivalTimeInSeconds) :
              \A cd \in Arrivals(input, cx) :
                RideWalkRide(input, ao, ax, t, cx, cd) =>
                    HasRideWalkRideJourney(input, ao, ax, t, cx, cd)

\* a search that returns on an input of this shape
RideWalkRideReturned ==
    /\ Returned /\ IsDepartAt /\ input.MaximumTransfers >= 2
    /\ \E ao \in Boardings(input) : \E ax \in Alightings(input, ao) :
          \E t \in 1..Len(input.Transfers) :
            \E cx \in Departures(input, input.Transfers[t].ToUniqueStopID,
                                  input.StopTimes[ax].ArrivalTimeInSeconds) :
              \E cd \in Arrivals(input, cx) :
                RideWalkRide(input, ao, ax, t, cx, cd)


\* two origins P and H, transfer row t walks P->H, and no trip stops at P
WalkBetweenOrigins(inp, t) ==
    /\ inp.Transfers[t].FromUniqueStopID \in FromStopsByUniqueStopId(inp)
    /\ inp.Transfers[t].ToUniqueStopID \in FromStopsByUniqueStopId(inp)
    /\ inp.Transfers[t].FromUniqueStopID # inp.Transfers[t].ToUniqueStopID
    /\ FromStopsByUniqueStopId(inp)
         = {inp.Transfers[t].FromUniqueStopID, inp.Transfers[t].ToUniqueStopID}
    /\ \A k \in StopTimeIndices(inp) :
          inp.StopTimes[k].UniqueStopID # inp.Transfers[t].FromUniqueStopID

\* the rides from stop id to a destination that leave at or after the
\* reference time, as pairs of stop time indices
RidesFrom(inp, id) ==
    {bk \in StopTimeIndices(inp) \X StopTimeIndices(inp) :
        /\ inp.StopTimes[bk[1]].UniqueStopID = id
        /\ inp.StopTimes[bk[1]].DepartureTimeInSeconds >= inp.TimeInSeconds
        /\ RidesTo(inp, bk[1], bk[2])
        /\ inp.StopTimes[bk[2]].UniqueStopID \in ToStopsByUniqueStopId(inp)}

\* the trip ids of the in-vehicle legs, in order
RECURSIVE TripChain(_)
TripChain(legs) ==
    IF legs = <<>> THEN <<>>
    ELSE (IF legs[1].ViaTrip # <<>> THEN <<legs[1].ViaTrip[1].UniqueTripID>>
          ELSE <<>>) \o TripChain(Tail(legs))

\* the trips come in time order: a later row of the input never reaches a
\* stop before an earlier row does
InTimeOrder(inp) ==
    \A k, l \in StopTimeIndices(inp) :
        (k < l /\ inp.StopTimes[k].UniqueStopID = inp.StopTimes[l].UniqueStopID) =>
            inp.StopTimes[k].ArrivalTimeInSeconds
              <= inp.StopTimes[l].ArrivalTimeInSeconds

\* what the result of such a search is to be: journeys boarded at H only,
\* none that starts with the walk, one per trip chain, and exactly one when
\* the trips come in time order
BoardedAtSecondOrigin(inp, t) ==
    /\ \A j \in Journeys :
          /\ j.Legs[1].ViaTrip # <<>>
          /\ j.FromUniqueStopID = inp.Transfers[t].ToUniqueStopID
    /\ \A i, k \in 1..Len(potential_journeys_found) :
          i # k => TripChain(potential_journeys_found[i].Legs)
                     # TripChain(potential_journeys_found[k].Legs)
    /\ Journeys # {}
    /\ InTimeOrder(inp) => Len(potential_journeys_found) = 1

\* C15: a depart-at search without transfer hopping from two origins P and
\* H joined by a walk P->H, where trips leave only from H (and one of them
\* leaves at or after the reference time and reaches a destination),
\* returns for every order of the two origins, and its result holds only
\* journeys boarded at H, one per trip chain (exactly one when the trips
\* come in time order), none of which starts with the walk.
C15_NoJourneyStartsWithWalk ==
    (Ended /\ IsDepartAt /\ ~input.AllowTransferHopping
       /\ input.MaximumTransfers >= 1) =>
        \A t \in 1..Len(input.Transfers) :
            (WalkBetweenOrigins(input, t)
               /\ RidesFrom(input, input.Transfers[t].ToUniqueStopID) # {}) =>
                (Returned /\ BoardedAtSecondOrigin(input, t))

\* the same of the searches that return
BoardedAtSecondOriginWhenReturned ==
    (Returned /\ IsDepartAt /\ ~input.AllowTransferHopping
       /\ input.MaximumTransfers >= 1) =>
        \A t \in 1..Len(input.Transfers) :
            (WalkBetweenOrigins(input, t)
               /\ RidesFrom(input, input.Transfers[t].ToUniqueStopID) # {}) =>
                BoardedAtSecondOrigin(input, t)

\* a search that returns on an input of this shape
WalkBetweenOriginsReturned ==
    /\ Returned /\ IsDepartAt /\ ~input.AllowTransferHopping
    /\ input.MaximumTransfers >= 1
    /\ \E t \in 1..Len(input.Transfers) :
          /\ WalkBetweenOrigins(input, t)
          /\ RidesFrom(input, input.Transfers[t].ToUniqueStopID) # {}


\* a direct trip rides do->dd from an origin to a destination; a second
\* trip rides so->sx from an origin to a stop X that is neither, and a
\* third leaves X at nx, no earlier, and reaches the destination at nd,
\* strictly before the direct trip does
DirectAndTwoRides(inp, do, dd, so, sx, nx, nd) ==
    /\ inp.StopTimes[do].UniqueStopID \in FromStopsByUniqueStopId(inp)
    /\ inp.StopTimes[do].DepartureTimeInSeconds >= inp.TimeInSeconds
    /\ RidesTo(inp, do, dd)
    /\ inp.StopTimes[dd].UniqueStopID \in ToStopsByUniqueStopId(inp)
    /\ TwoRidesThrough(inp, so, sx, nx, nd)
    /\ inp.StopTimes[sx].UniqueStopID \notin
          ToStopsByUniqueStopId(inp) \cup FromStopsByUniqueStopId(inp)
    /\ inp.StopTimes[so].UniqueTripID # inp.StopTimes[do].UniqueTripID
    /\ inp.StopTimes[nx].UniqueTripID # inp.StopTimes[do].UniqueTripID
    /\ inp.StopTimes[nd].UniqueStopID = inp.StopTimes[dd].UniqueStopID
    /\ inp.StopTimes[nd].ArrivalTimeInSeconds
         < inp.StopTimes[dd].ArrivalTimeInSeconds

HasBothJourneys(inp, do, dd, so, sx, nx, nd) ==
    /\ Cardinality(Journeys) = 2
    /\ Len(potential_journeys_found) = 2
    /\ \E j \in Journeys : Len(j.Legs) = 1 /\ IsRide(j.Legs[1], inp, do, dd)
    /\ HasTwoRideJourney(inp, so, sx, nx, nd)

\* C16: a depart-at search with at least two rounds, on an input with a
\* direct trip from the origin to the destination and a two-ride
\* alternative through a stop X that reaches the destination strictly
\* earlier, returns exactly two journeys, the direct one and the two-ride
\* one, for every order in which the stops marked for round 2 are visited.
C16_DirectAndTwoRideJourneys ==
    (Ended /\ IsDepartAt /\ input.MaximumTransfers >= 2) =>
        \A do \in Boardings(input) : \A dd \in Arrivals(input, do) :
          \A so \in Boardings(input) : \A sx \in Alightings(input, so) :
            \A nx \in Departures(input, input.StopTimes[sx].UniqueStopID,
                                  input.StopTimes[sx].ArrivalTimeInSeconds) :
              \A nd \in Arrivals(input, nx) :
            DirectAndTwoRides(input, do, dd, so, sx, nx, nd) =>
                (Returned /\ HasBothJourneys(input, do, dd, so, sx, nx, nd))

\* the same of the searches that return
BothJourneysWhenReturned ==
    (Returned /\ IsDepartAt /\ input.MaximumTransfers >= 2) =>
        \A do \in Boardings(input) : \A dd \in Arrivals(input, do) :
          \A so \in Boardings(input) : \A sx \in Alightings(input, so) :
            \A nx \in Departures(input, input.StopTimes[sx].UniqueStopID,
                                  input.StopTimes[sx].ArrivalTimeInSeconds) :
              \A nd \in Arrivals(input, nx) :
            DirectAndTwoRides(input, do, dd, so, sx, nx, nd) =>
                HasBothJourneys(input, do, dd, so, sx, nx, nd)

\* a search that returns on an input of this shape
DirectAndTwoRidesReturned ==
    /\ Returned /\ IsDepartAt /\ input.MaximumTransfers >= 2
    /\ \E do \in Boardings(input) : \E dd \in Arrivals(input, do) :
          \E so \in Boardings(input) : \E sx \in Alightings(input, so) :
            \E nx \in Departures(input, input.StopTimes[sx].UniqueStopID,
                                  input.StopTimes[sx].ArrivalTimeInSeconds) :
              \E nd \in Arrivals(input, nx) :
                DirectAndTwoRides(input, do, dd, so, sx, nx, nd)


\* a timetable of service-day instances of one two-stop trip: every stop
\* time is the origin at sequence 5 or the destination at sequence 6, every
\* instance has its own trip id and both stop times, and there is no
\* transfer
MultiDay(inp) ==
    /\ Len(inp.FromStops) = 1 /\ Len(inp.ToStops) = 1
    /\ inp.Transfers = <<>>
    /\ \A k \in StopTimeIndices(inp) :
          /\ inp.StopTimes[k].UniqueTripID = inp.StopTimes[k].UniqueTripServiceID
          /\ \/ /\ inp.StopTimes[k].StopSequence = 5
                /\ inp.StopTimes[k].UniqueStopID = inp.FromStops[1]
                /\ Cardinality(Alightings(inp, k)) = 1
             \/ /\ inp.StopTimes[k].StopSequence = 6
                /\ inp.StopTimes[k].UniqueStopID = inp.ToStops[1]
                /\ \E b \in StopTimeIndices(inp) : RidesTo(inp, b, k)

\* the instance boarded at b is the first to leave at or after the
\* reference time
FirstDeparture(inp, b) ==
    /\ b \in Boardings(inp)
    /\ \A other \in Boardings(inp) :
          inp.StopTimes[b].DepartureTimeInSeconds
            <= inp.StopTimes[other].DepartureTimeInSeconds

\* C17: a depart-at search with at least one round over service-day
\* instances of one two-stop trip, one of which leaves at or after the
\* reference time, returns exactly one journey: one in-vehicle leg on the
\* first instance that leaves at or after the reference time.
C17_FirstInstanceAfterReference ==
    (Ended /\ IsDepartAt /\ input.MaximumTransfers >= 1 /\ MultiDay(input)) =>
        \A b \in Boardings(input) : \A k \in Arrivals(input, b) :
            FirstDeparture(input, b) =>
                /\ Returned
                /\ Len(potential_journeys_found) = 1
                /\ \A j \in Journeys :
                      /\ Len(j.Legs) = 1
                      /\ IsRide(j.Legs[1], input, b, k)
                      /\ j.DepartureTimeInSeconds
                           = input.StopTimes[b].DepartureTimeInSeconds
                      /\ j.ArrivalTimeInSeconds
                           = input.StopTimes[k].ArrivalTimeInSeconds

\* no instance that leaves before the reference time is boarded: the trips
\* scanned are those of stop times leaving at or after it
OnlyLaterInstancesBoarded ==
    (IsDepartAt /\ MultiDay(input)) =>
        \A id \in DOMAIN trips_scanned_from_sequence :
            \E b \in Boardings(input) : input.StopTimes[b].UniqueTripID = id

\* a depart-at search over such a timetable has boarded an instance
MultiDayBoarded ==
    /\ IsDepartAt /\ MultiDay(input)
    /\ DOMAIN trips_scanned_from_sequence # {}
    /\ \E k \in StopTimeIndices(input) :
          /\ input.StopTimes[k].UniqueStopID = input.FromStops[1]
          /\ input.StopTimes[k].DepartureTimeInSeconds < input.TimeInSeconds

\* C18: an arrive-by search with at least one round over the same
\* timetable, given in ascending stop sequence order, with the reference
\* time equal to the arrival of one instance at the destination, returns
\* one journey, which leaves the origin when that instance does.
C18_ArriveByLatestInstance ==
    (Ended /\ ~IsDepartAt /\ input.MaximumTransfers >= 1 /\ MultiDay(input)) =>
        \A b \in StopTimeIndices(input) : \A k \in Arrivals(input, b) :
            input.StopTimes[k].ArrivalTimeInSeconds = input.TimeInSeconds =>
                /\ Returned
                /\ Len(potential_journeys_found) = 1
                /\ \A j \in Journeys :
                      j.DepartureTimeInSeconds
                        = input.StopTimes[b].DepartureTimeInSeconds

\* no instance that arrives after the reference time is used: the trips
\* scanned are those of stop times arriving at or before it
OnlyEarlierInstancesUsed ==
    (~IsDepartAt /\ MultiDay(input)) =>
        \A id \in DOMAIN trips_scanned_from_sequence :
            \E k \in StopTimeIndices(input) :
                /\ input.StopTimes[k].UniqueTripID = id
                /\ input.StopTimes[k].UniqueStopID = input.ToStops[1]
                /\ input.StopTimes[k].ArrivalTimeInSeconds <= input.TimeInSeconds


(***************************************************************************)
(* The iterator, under IteratorSpec.                                       *)
(***************************************************************************)
\* the elements of the slice an iterator runs over, in physical order
Physical(it) == SubSeq(it.data.arr, 1, it.data.len)

Reversed(s) == [i \in 1..Len(s) |-> s[Len(s) + 1 - i]]

\* the same elements in the order the iterator's direction visits them
InDirection(it) == IF it.reverse THEN Reversed(Physical(it)) ELSE Physical(it)

\* the values returned so far are the first elements in the iterator's
\* direction, one per true answer of HasNext; HasNext answers false, and an
\* unguarded Next panics, only when all n have been returned
ProtocolHolds ==
    /\ Len(yielded) <= Length(iterator)
    /\ yielded = SubSeq(InDirection(iterator), 1, Len(yielded))
    /\ it_pc = "has_next" => answered_true = Len(yielded)
    /\ it_pc = "next" => /\ answered_true = Len(yielded) + 1
                         /\ Len(yielded) < Length(iterator)
    /\ it_pc = "exhausted" => /\ answered_true = Length(iterator)
                              /\ yielded = InDirection(iterator)
    /\ panic_value = <<PanicNext>> => /\ answered_true = Length(iterator)
                                      /\ yielded = InDirection(iterator)

\* a Next after a true answer returns one more value; a Next after a false
\* answer panics with the precondition message and returns nothing
NextAdvancesOrPanics ==
    IteratorNext =>
        IF it_pc = "exhausted"
        THEN /\ panic_value' = <<PanicNext>>
             /\ yielded' = yielded
             /\ it_pc' = "panic"
        ELSE /\ Len(yielded') = Len(yielded) + 1
             /\ yielded'[Len(yielded')] = InDirection(iterator)[Len(yielded')]
             /\ panic_value' = <<>>

\* C19: for either direction, a fresh iterator over a sequence of length n
\* answers HasNext = true exactly n times when alternated with Next, Next
\* returns the elements in physical order (forward) or reverse physical
\* order (reverse), each Next advances by exactly one element, and Next
\* called when HasNext is false panics without returning a value, the empty
\* sequence included.
C19_IteratorProtocol == []ProtocolHolds /\ [][NextAdvancesOrPanics]_vars

\* a reverse loop over three elements with spare capacity behind them ran to
\* its end and one more Next was called
C19_Witness ==
    /\ panic_value = <<PanicNext>>
    /\ iterator.reverse
    /\ Length(iterator) = 3
    /\ Len(iterator.data.arr) > 3
    /\ yielded[1] # yielded[3]

\* the unguarded Next on an iterator over no elements
EmptyIteratorPanicked ==
    /\ panic_value = <<PanicNext>>
    /\ Length(iterator) = 0
    /\ answered_true = 0

\* the iterator as it was when it was made
Fresh(it) == NewSliceIterator(it.data, it.reverse)

\* the last sub-iterator, asked for inside the parent's elements, is a fresh
\* iterator of the asked length in the parent's direction over the parent's
\* positions from_inclusive .. from_inclusive + num_items - 1, whatever the
\* parent's cursor was
SubIteratorHolds ==
    (sub_iterator # <<>> /\ it_pc # "panic"
       /\ WithinBounds(iterator, sub_range[1], sub_range[2])) =>
        /\ Length(sub_iterator[1]) = sub_range[2]
        /\ sub_iterator[1].reverse = iterator.reverse
        /\ sub_iterator[1] = Fresh(sub_iterator[1])
        /\ Drain(sub_iterator[1]) =
               SubSeq(Drain(Fresh(iterator)), sub_range[1] + 1,
                      sub_range[1] + sub_range[2])
        /\ sub_iterator[1] =
               SliceIterator(Fresh(iterator), sub_range[1], sub_range[2])

\* the call leaves the parent as it was, and a range inside the parent's
\* elements never panics
SubIteratorKeepsParent ==
    IteratorSliceIterator =>
        /\ iterator' = iterator
        /\ WithinBounds(iterator, sub_range'[1], sub_range'[2]) =>
               (panic_value' = <<>> /\ sub_iterator' # <<>>)

\* C20: for a parent iterator over a sequence of length n in either
\* direction and every offset o >= 0 and count c >= 0 with o + c <= n,
\* SliceIterator(o, c) is a fresh iterator of length c in the parent's
\* direction that yields exactly the elements a fresh parent would yield at
\* iteration positions o .. o+c-1, in that order (for a reverse parent
\* offset 0 is the physical tail); the call neither depends on nor changes
\* the parent's cursor.
C20_SubIteratorRange == []SubIteratorHolds /\ [][SubIteratorKeepsParent]_vars

\* two elements from position 1 of a reverse parent of three whose cursor
\* had already moved two elements on
C20_Witness ==
    /\ sub_iterator # <<>>
    /\ it_pc # "panic"
    /\ iterator.reverse
    /\ Length(iterator) = 3
    /\ Len(yielded) = 2
    /\ sub_range = <<1, 2>>
    /\ Drain(sub_iterator[1]) = <<Physical(iterator)[2], Physical(iterator)[1]>>
    /\ Physical(iterator)[2] # Physical(iterator)[1]
    /\ Physical(iterator)[3] # Physical(iterator)[2]

(***************************************************************************)
(* The lookup maps of PrepareRaptorInput.                                  *)
(***************************************************************************)
\* every stop and every trip service an input mentions
MentionedTripServices(inp) ==
    {inp.StopTimes[i].UniqueTripServiceID : i \in 1..Len(inp.StopTimes)}

MentionedStops(inp) ==
    {inp.StopTimes[i].UniqueStopID : i \in 1..Len(inp.StopTimes)}
      \cup {inp.Transfers[i].FromUniqueStopID : i \in 1..Len(inp.Transfers)}
      \cup {inp.Transfers[i].ToUniqueStopID : i \in 1..Len(inp.Transfers)}
      \cup {inp.FromStops[i] : i \in 1..Len(inp.FromStops)}
      \cup {inp.ToStops[i] : i \in 1..Len(inp.ToStops)}

StrictlyIncreasing(s) == \A i \in 1..(Len(s) - 1) : s[i] < s[i + 1]

Occurrences(s, x) == Cardinality({i \in 1..Len(s) : s[i] = x})

\* the elements of a slice
ElementsOf(slice) == SubSeq(slice.arr, 1, slice.len)

\* index list s holds, once each and in input order, exactly the indices
\* 0 .. n-1 that belong under its key
HoldsExactly(s, n, belongs(_)) ==
    /\ \A i \in 0..(n - 1) : Occurrences(s, i) = IF belongs(i) THEN 1 ELSE 0
    /\ \A k \in 1..Len(s) : s[k] \in 0..(n - 1)
    /\ StrictlyIncreasing(s)

\* C21: when the lookup maps are built from the raw lists, every stop-time
\* index appears exactly once under the key of its stop and exactly once
\* under the key of its trip service id and nowhere else, every transfer
\* index appears exactly once under its from-stop, and within each value the
\* indices are strictly increasing.  The maps are read off where the search
\* has just prepared its input.
C21_IndicesOnceInInputOrder ==
    (pc = "loop" /\ round = 0) =>
    /\ \A id \in MentionedTripServices(input) :
          input.StopTimesByUniqueTripServiceId = <<>> =>
              HoldsExactly(ElementsOf(StopTimesByUniqueTripServiceId(input, id)),
                           Len(input.StopTimes),
                           LAMBDA i : input.StopTimes[i + 1].UniqueTripServiceID = id)
    /\ \A id \in MentionedStops(input) :
        /\ input.StopTimesByUniqueStopId = <<>> =>
              HoldsExactly(ElementsOf(StopTimesByUniqueStopId(input, id)),
                           Len(input.StopTimes),
                           LAMBDA i : input.StopTimes[i + 1].UniqueStopID = id)
        /\ input.TransfersByUniqueStopId = <<>> =>
              HoldsExactly(TransfersByUniqueStopId(input, id),
                           Len(input.Transfers),
                           LAMBDA i : input.Transfers[i + 1].FromUniqueStopID = id)

\* a search runs on maps built from raw lists in which one stop is served by
\* two trips, a trip has three stop times and a stop has a transfer
C21_Witness ==
    /\ pc = "loop"
    /\ round = 0
    /\ ~HasSupplied(input)
    /\ \E id \in MentionedStops(input) :
          Len(ElementsOf(StopTimesByUniqueStopId(input, id))) >= 2
    /\ \E id \in MentionedTripServices(input) :
          Len(ElementsOf(StopTimesByUniqueTripServiceId(input, id))) >= 3
    /\ \E id \in MentionedStops(input) : Len(TransfersByUniqueStopId(input, id)) >= 1

(***************************************************************************)
(* The mode dispatcher.                                                    *)
(***************************************************************************)
ValidMode(inp) == inp.Mode \in {RaptorModeDepartAt, RaptorModeArriveBy}

\* C22: a search invoked through the mode dispatcher with a mode value that
\* is neither depart_at nor arrive_by is reported as a fatal programmer
\* error and produces no journeys: it never scans a stop and never returns.
C22_InvalidModeIsFatal == ~ValidMode(input) => pc \notin {"scan", "done"}

\* with a mode that is neither, the dispatcher runs the arrive-by search
InvalidModeRunsArriveBy ==
    [][~ValidMode(input) =>
         (ArriveByBeginRound \/ ArriveByScanStop \/ ArriveByEndRound
            \/ ArriveByReturn)]_vars

\* a search with an invalid mode returned to its caller after scanning stops
InvalidModeReturned ==
    /\ ~ValidMode(input)
    /\ Returned
    /\ input.MaximumTransfers >= 1

(***************************************************************************)
(* Termination and the rounds.                                             *)
(***************************************************************************)
\* what a step leaves of the journeys found before it
KeepsJourneysFound ==
    /\ Len(potential_journeys_found') >= Len(potential_journeys_found)
    /\ SubSeq(potential_journeys_found', 1, Len(potential_journeys_found))
         = potential_journeys_found

\* with no round to run nothing is scanned and nothing is found
NothingScannedWithoutRounds ==
    input.MaximumTransfers = 0 =>
        (pc \in {"loop", "done"} /\ potential_journeys_found = <<>>)

\* how far a search is from its end: the rounds still to run, and within a
\* round the marked stops still to scan
StepsLeft ==
    IF Ended THEN 0
    ELSE (input.MaximumTransfers - round) * (Cardinality(MentionedStops(input)) + 3)
           + (IF pc = "loop" THEN Cardinality(MentionedStops(input)) + 2
                             ELSE 1 + Cardinality(pending))

\* every step brings the end nearer, so no search runs for ever, and a
\* search that has not ended can take a step
StepsTowardsEnd == StepsLeft' < StepsLeft /\ StepsLeft' >= 0

\* a search that has not ended is at the head of a round it may begin, at
\* the head of the loop with all rounds run, or inside a round
CanStep ==
    \/ pc = "loop" /\ round <= input.MaximumTransfers
    \/ pc = "scan"

\* a search ends only by returning, after exactly N rounds
EndsByReturning ==
    /\ Ended => (Returned /\ round = input.MaximumTransfers)
    /\ ~Ended => CanStep

\* a search that has returned has run exactly N rounds
ReturnsAfterNRounds == Returned => round = input.MaximumTransfers

\* C23: each search terminates after exactly N = maximum_transfers rounds
\* for every finite input; with N = 0 no stop is scanned and the result is
\* empty; journeys found in an earlier round are still in the result,
\* unchanged and in the same relative order, when the search returns.
C23_TerminatesAfterNRounds ==
    /\ []EndsByReturning
    /\ [][StepsTowardsEnd]_vars
    /\ []NothingScannedWithoutRounds
    /\ [][KeepsJourneysFound]_vars

\* every search ends, by returning after N rounds or in a panic, and keeps
\* the journeys it has found
EndsKeepingJourneys ==
    /\ []ReturnsAfterNRounds
    /\ [](~Ended => CanStep)
    /\ [][StepsTowardsEnd]_vars
    /\ []NothingScannedWithoutRounds
    /\ [][KeepsJourneysFound]_vars

\* a search returned two journeys found in different rounds
FoundInTwoRoundsReturned ==
    /\ Returned
    /\ Len(potential_journeys_found) >= 2
    /\ input.MaximumTransfers >= 2

(***************************************************************************)
(* The range of a trip scan.                                               *)
(***************************************************************************)
\* the stop time a recorded trip scan boarded or alighted at
UsedBy(scan) == input.StopTimes[scan.used + 1]

\* the stop sequences of the stop times a recorded trip scan was handed
SequencesOf(scan) ==
    {input.StopTimes[scan.items[k] + 1].StopSequence : k \in 1..Len(scan.items)}

\* the stop times (0-based) of the trip service of a recorded trip scan
SameService(scan) ==
    {i \in 0..(Len(input.StopTimes) - 1) :
        input.StopTimes[i + 1].UniqueTripServiceID = UsedBy(scan).UniqueTripServiceID}

ItemsOf(scan) == {scan.items[k] : k \in 1..Len(scan.items)}

\* a trip scanned before from sequence q is boarded at p < q: the scan is
\* handed every stop time of the trip service between p and q and none
\* beyond q
TruncatedForward(scan) ==
    /\ ~scan.panicked
    /\ \A i \in SameService(scan) :
          (/\ UsedBy(scan).StopSequence < input.StopTimes[i + 1].StopSequence
           /\ input.StopTimes[i + 1].StopSequence < scan.prior[1])
             => i \in ItemsOf(scan)
    /\ \A seq \in SequencesOf(scan) : seq <= scan.prior[1]

\* a trip scanned before from sequence q is alighted at p > q: the scan is
\* handed no stop time before q
TruncatedReverse(scan) ==
    /\ ~scan.panicked
    /\ \A seq \in SequencesOf(scan) : seq >= scan.prior[1]

\* C24: when a trip that was previously scanned from boarding sequence q is
\* boarded again at a stop time with sequence p < q, the downstream scan
\* examines every stop time of that trip service with p < sequence < q and
\* none with sequence greater than q; symmetrically, the reverse scan after
\* a prior scan from q, alighting at p > q, examines none with sequence less
\* than q.
C24_ScanTruncatedByPriorScan ==
    \A k \in 1..Len(scans) :
        scans[k].prior # <<>> =>
            IF IsDepartAt THEN TruncatedForward(scans[k])
                          ELSE TruncatedReverse(scans[k])

\* what does hold of a re-boarding that does not panic: every stop time of
\* the trip service between p and q is handed to the scan
BetweenIsExamined ==
    \A k \in 1..Len(scans) :
        (scans[k].prior # <<>> /\ ~scans[k].panicked /\ IsDepartAt) =>
            \A i \in SameService(scans[k]) :
                (/\ UsedBy(scans[k]).StopSequence < input.StopTimes[i + 1].StopSequence
                 /\ input.StopTimes[i + 1].StopSequence < scans[k].prior[1])
                   => i \in ItemsOf(scans[k])

\* a trip is boarded again before the stop it was scanned from and the scan
\* is handed one of its own stop times beyond that stop
ExaminedBeyondPriorScan ==
    \E k \in 1..Len(scans) :
        /\ scans[k].prior # <<>>
        /\ ~scans[k].panicked
        /\ IsDepartAt
        /\ \E i \in ItemsOf(scans[k]) \cap SameService(scans[k]) :
              input.StopTimes[i + 1].StopSequence > scans[k].prior[1]

\* the stop times of the trip service of a recorded trip scan that come
\* after the one boarded, and before the one alighted at, in the list
AfterInList(scan) == {i \in SameService(scan) : i > scan.used}

BeforeInList(scan) == {i \in SameService(scan) : i < scan.used}

\* the stop sequences along the trip service of a recorded trip scan do not
\* start at 1 and are not contiguous
SparseSequences(scan) ==
    /\ \A i \in SameService(scan) : input.StopTimes[i + 1].StopSequence > 1
    /\ \E i \in SameService(scan) :
          /\ i + 1 \in SameService(scan)
          /\ input.StopTimes[i + 2].StopSequence
               > input.StopTimes[i + 1].StopSequence + 1

\* C25: for every trip whose stop sequences are strictly increasing but do
\* not start at 1 and are not contiguous (for example 5, 10, 15), the first
\* forward scan from a boarding stop time st examines exactly the stop times
\* of that trip service that come after st in the list, and the first
\* reverse scan from an alighting stop time st examines exactly those that
\* come before st.
C25_FirstScanOfSparseTrip ==
    \A k \in 1..Len(scans) :
        (scans[k].prior = <<>> /\ SparseSequences(scans[k])) =>
            /\ ~scans[k].panicked
            /\ Len(scans[k].items) = Cardinality(ItemsOf(scans[k]))
            /\ ItemsOf(scans[k]) = IF IsDepartAt THEN AfterInList(scans[k])
                                                ELSE BeforeInList(scans[k])

\* a first boarding at the second stop time of a trip with sequences 5, 10,
\* 15 panics
SparseTripBoardedMidway ==
    \E k \in 1..Len(scans) :
        /\ scans[k].prior = <<>>
        /\ SparseSequences(scans[k])
        /\ IsDepartAt
        /\ BeforeInList(scans[k]) # {}
        /\ AfterInList(scans[k]) # {}
        /\ scans[k].panicked

(***************************************************************************)
(* Pruning by trips_scanned_from_sequence.                                 *)
(***************************************************************************)
\* C26: once a trip has been scanned from boarding sequence q, every stop of
\* that trip with sequence greater than q holds a label whose arrival time
\* is <= that trip's arrival time at the stop, so skipping a later boarding
\* of the same unique_trip_id at a sequence >= q never discards an
\* improvement, also when the scan stopped early at a destination and when
\* two service-day instances share the unique_trip_id.
C26_SkipDiscardsNoImprovement ==
    \A k \in 1..Len(skips) : skips[k].missed = {}

\* the same for the trips that have one service-day instance and no
\* destination before their last stop
SkipOfLoneInstanceDiscardsNothing ==
    \A k \in 1..Len(skips) :
        LET st == input.StopTimes[skips[k].used + 1]
        IN  (/\ \A i \in 1..Len(input.StopTimes) :
                   input.StopTimes[i].UniqueTripID = st.UniqueTripID
                     => input.StopTimes[i].UniqueTripServiceID
                          = st.UniqueTripServiceID
             /\ \A i \in 1..Len(input.StopTimes) :
                   (/\ input.StopTimes[i].UniqueTripID = st.UniqueTripID
                    /\ input.StopTimes[i].UniqueStopID
                         \in ToStopsByUniqueStopId(input))
                     => \A j \in 1..Len(input.StopTimes) :
                           input.StopTimes[j].UniqueTripID = st.UniqueTripID
                             => input.StopTimes[j].StopSequence
                                  <= input.StopTimes[i].StopSequence)
               => skips[k].missed = {}

\* an instance of a trip is skipped for the scan of another instance that
\* arrives later at a stop further along
EarlierInstanceSkipped ==
    \E k \in 1..Len(skips) :
        /\ skips[k].missed # {}
        /\ \E i \in 1..Len(input.StopTimes) :
              /\ input.StopTimes[i].UniqueTripID
                   = input.StopTimes[skips[k].used + 1].UniqueTripID
              /\ input.StopTimes[i].UniqueTripServiceID
                   # input.StopTimes[skips[k].used + 1].UniqueTripServiceID

\* a trip with one instance is skipped at a stop from which it would have
\* improved a stop behind the destination its earlier scan stopped at
SkippedBehindDestination ==
    \E k \in 1..Len(skips) :
        /\ skips[k].missed # {}
        /\ \A i \in 1..Len(input.StopTimes) :
              input.StopTimes[i].UniqueTripID
                   = input.StopTimes[skips[k].used + 1].UniqueTripID
                => input.StopTimes[i].UniqueTripServiceID
                     = input.StopTimes[skips[k].used + 1].UniqueTripServiceID

\* what a step does to the stored sequences: an entry is never removed, and
\* a changed one is smaller in a forward search and larger in a reverse one
ScannedFromMoves ==
    \A t \in DOMAIN trips_scanned_from_sequence :
        /\ t \in DOMAIN trips_scanned_from_sequence'
        /\ IF IsDepartAt
           THEN trips_scanned_from_sequence'[t] <= trips_scanned_from_sequence[t]
           ELSE trips_scanned_from_sequence'[t] >= trips_scanned_from_sequence[t]

\* every recorded trip scan of a trip scanned before starts at a sequence
\* strictly before (forward) or strictly behind (reverse) the stored one,
\* and what is stored after the scans of a marked stop is the sequence of
\* the last one
WritesAreStrict ==
    /\ \A k \in 1..Len(scans) :
          scans[k].prior # <<>> =>
              IF IsDepartAt THEN UsedBy(scans[k]).StopSequence < scans[k].prior[1]
                            ELSE UsedBy(scans[k]).StopSequence > scans[k].prior[1]
    /\ \A k \in 1..Len(scans) :
          /\ UsedBy(scans[k]).UniqueTripID \in DOMAIN trips_scanned_from_sequence
          /\ IF IsDepartAt
             THEN trips_scanned_from_sequence[UsedBy(scans[k]).UniqueTripID]
                    <= UsedBy(scans[k]).StopSequence
             ELSE trips_scanned_from_sequence[UsedBy(scans[k]).UniqueTripID]
                    >= UsedBy(scans[k]).StopSequence

\* an alighting that is not skipped lies strictly behind the stored sequence
\* of its trip, whatever label the marked stop holds
ArriveByWritesBehind ==
    ~IsDepartAt =>
        \A i \in 1..Len(input.StopTimes) :
            \A id \in DOMAIN segments :
                (/\ input.StopTimes[i].UniqueTripID
                      \in DOMAIN trips_scanned_from_sequence
                 /\ ~ArriveBySkips(input.StopTimes[i], segments[id],
                                   trips_scanned_from_sequence))
                  => input.StopTimes[i].StopSequence
                       > trips_scanned_from_sequence[input.StopTimes[i].UniqueTripID]

\* C27: over a whole forward search the value stored in
\* trips_scanned_from_sequence for a trip id strictly decreases on every
\* write (a boarding at a sequence >= the stored one, equality included, is
\* skipped and writes nothing), so no trip is scanned twice from the same
\* boarding sequence; over a reverse search the stored value strictly
\* increases on every write.
C27_ScannedFromStrictlyMoves ==
    /\ []WritesAreStrict
    /\ []ArriveByWritesBehind
    /\ [][ScannedFromMoves]_vars

\* a trip scanned from one sequence is scanned again from an earlier one,
\* and a second instance of a trip is skipped at the stored sequence itself
C27_Witness ==
    /\ IsDepartAt
    /\ \E k \in 1..Len(scans) :
          /\ scans[k].prior # <<>>
          /\ UsedBy(scans[k]).StopSequence < scans[k].prior[1]
          /\ trips_scanned_from_sequence[UsedBy(scans[k]).UniqueTripID]
               = UsedBy(scans[k]).StopSequence

\* a boarding at exactly the stored sequence is skipped
SkippedAtStoredSequence ==
    \E k \in 1..Len(skips) :
        input.StopTimes[skips[k].used + 1].StopSequence = skips[k].prior

(***************************************************************************)
(* The labels.                                                             *)
(***************************************************************************)
\* from one label store to a later one: no label is removed, a label is
\* replaced only by one with a strictly smaller (forward) or strictly
\* larger (reverse) time, and an equal time leaves the label as it was
LabelsMove(before, after, forward) ==
    \A id \in DOMAIN before :
        /\ id \in DOMAIN after
        /\ after[id] # before[id] =>
              IF forward
              THEN after[id].ArrivalTimeInSeconds < before[id].ArrivalTimeInSeconds
              ELSE after[id].ArrivalTimeInSeconds > before[id].ArrivalTimeInSeconds

\* the loop body of the reverse scan, run from the state on one preceding
\* stop time of an alighting, moves the labels only to strictly later times
ReverseBodyMovesLabelsLater ==
    (~IsDepartAt /\ pc = "scan") =>
        \A id \in pending :
            \A used \in 1..Len(input.StopTimes) :
                \A i \in 0..(Len(input.StopTimes) - 1) :
                    LabelsMove(segments,
                        ArriveByPreceeding(input, stops_marked_for_round[id],
                            SegmentAt(segments, id), input.StopTimes[used],
                            <<i>>, 1, SearchState).segments,
                        FALSE)

\* C28: in the forward search the arrival time stored for a stop is replaced
\* only by a strictly smaller value (by a ride or by a walk), so it never
\* increases and an equal-time alternative never replaces the label; in the
\* reverse search it is replaced only by a strictly larger value and never
\* decreases.
C28_LabelsMoveOneWay ==
    /\ [][LabelsMove(segments, segments', IsDepartAt)]_vars
    /\ []ReverseBodyMovesLabelsLater

\* a forward scan has replaced the label of a stop that was reached before,
\* once by a ride and once by a walk
C28_Witness ==
    /\ IsDepartAt
    /\ round >= 1
    /\ \E id \in DOMAIN segments :
          /\ segments[id].Spans # <<>>
          /\ segments[id].Spans[Len(segments[id].Spans)].ViaTrip = <<>>
          /\ segments[id].ArrivalTimeInSeconds > input.TimeInSeconds
    /\ \E id \in DOMAIN segments :
          /\ Len(segments[id].Spans) >= 2
          /\ segments[id].Spans[Len(segments[id].Spans)].ViaTrip # <<>>

\* the time of a label is the arrival time of the last span of its chain,
\* or the reference time when the chain is empty
EndsItsChain(segment) ==
    segment.ArrivalTimeInSeconds =
        IF segment.Spans = <<>> THEN input.TimeInSeconds
        ELSE segment.Spans[Len(segment.Spans)].ArrivalTimeInSecondsToUniqueStopID

LabelsEndTheirChains(labels) == \A id \in DOMAIN labels : EndsItsChain(labels[id])

\* the labels the loop body of the reverse scan leaves when it is run from
\* the state on one preceding stop time of an alighting that is not skipped
ReverseBodyLabelsEndTheirChains ==
    (~IsDepartAt /\ pc = "scan") =>
        \A id \in pending :
            \A used \in 1..Len(input.StopTimes) :
                \A i \in 0..(Len(input.StopTimes) - 1) :
                    (/\ input.StopTimes[used].UniqueStopID = id
                     /\ ~ArriveBySkips(input.StopTimes[used], SegmentAt(segments, id),
                                       trips_scanned_from_sequence)
                     /\ input.StopTimes[i + 1].UniqueTripServiceID
                          = input.StopTimes[used].UniqueTripServiceID
                     /\ i + 1 < used)
                      => LabelsEndTheirChains(
                             ArriveByPreceeding(input, stops_marked_for_round[id],
                                 SegmentAt(segments, id), input.StopTimes[used],
                                 <<i>>, 1, SearchState).segments)

StoredLabelsEndTheirChains == LabelsEndTheirChains(segments)

\* a forward search holds a label reached by a ride and a walk
ForwardLabelsWritten ==
    /\ IsDepartAt
    /\ \E id \in DOMAIN segments :
          /\ Len(segments[id].Spans) >= 2
          /\ segments[id].Spans[Len(segments[id].Spans)].ViaTrip = <<>>

(***************************************************************************)
(* The marks.                                                              *)
(***************************************************************************)
\* the span most recently added to a chain: the forward search appends, the
\* reverse search puts in front
LatestSpan(spans) == IF IsDepartAt THEN spans[Len(spans)] ELSE spans[1]

StartIds == {StartStops(input)[i] : i \in 1..Len(StartStops(input))}

\* a mark of the set a round is about to scan names how its stop was
\* reached: transfer by a walk, arrival (away from the initial stops) by a
\* ride
MarkNamesLatestSpan(id) ==
    /\ id \in DOMAIN segments
    /\ stops_marked_for_round[id].Source = RaptorMarkedStopSourceTransfer =>
          /\ segments[id].Spans # <<>>
          /\ LatestSpan(segments[id].Spans).ViaTrip = <<>>
    /\ (/\ stops_marked_for_round[id].Source = RaptorMarkedStopSourceArrival
        /\ id \notin StartIds) =>
          /\ segments[id].Spans # <<>>
          /\ LatestSpan(segments[id].Spans).ViaTrip # <<>>

\* C30: whenever a stop is in the marked set of a round with source
\* transfer, the span most recently added to its current label is a walk;
\* whenever its source is arrival and it is not an initial origin or
\* destination, the span most recently added to its current label is a
\* ride.  Read where a round is about to start.
C30_MarkSourceNamesLatestSpan ==
    (pc = "loop" /\ round >= 1) =>
        \A id \in DOMAIN stops_marked_for_round : MarkNamesLatestSpan(id)

\* a stop away from the origins starts a round marked arrival with a label
\* that ends in a walk
ArrivalMarkOnWalkLabel ==
    /\ pc = "loop"
    /\ round >= 1
    /\ \E id \in DOMAIN stops_marked_for_round \ StartIds :
          /\ stops_marked_for_round[id].Source = RaptorMarkedStopSourceArrival
          /\ id \in DOMAIN segments
          /\ segments[id].Spans # <<>>
          /\ LatestSpan(segments[id].Spans).ViaTrip = <<>>

\* every marked stop has a label with a chain, unless it is an initial stop
MarkedStopsReached ==
    (pc = "loop" /\ round >= 1) =>
        \A id \in DOMAIN stops_marked_for_round \ StartIds :
            id \in DOMAIN segments /\ segments[id].Spans # <<>>

\* over the writes of a round and the marks they leave: no write changes an
\* arrival mark to transfer, and a stop the ride loop has marked stays
\* marked arrival
ArrivalDominates(writes, next) ==
    /\ \A k \in 1..Len(writes) :
          (/\ writes[k].source = RaptorMarkedStopSourceTransfer
           /\ writes[k].prior = <<RaptorMarkedStopSourceArrival>>)
            => ~writes[k].written
    /\ \A k \in 1..Len(writes) :
          writes[k].source = RaptorMarkedStopSourceArrival =>
              /\ writes[k].id \in DOMAIN next
              /\ next[writes[k].id].Source = RaptorMarkedStopSourceArrival

\* between two states of one round no arrival mark becomes a transfer mark
ArrivalMarksStay ==
    (pc = "scan" /\ pc' = "scan") =>
        \A id \in DOMAIN stops_marked_for_next_round :
            stops_marked_for_next_round[id].Source = RaptorMarkedStopSourceArrival
              => /\ id \in DOMAIN stops_marked_for_next_round'
                 /\ stops_marked_for_next_round'[id].Source
                      = RaptorMarkedStopSourceArrival

\* the loop body of the reverse scan, run from the state on two preceding
\* stop times of an alighting, leaves writes and marks of the same kind
ReverseBodyArrivalDominates ==
    (~IsDepartAt /\ pc = "scan") =>
        \A id \in pending :
            \A used \in 1..Len(input.StopTimes) :
                \A i, j \in 0..(Len(input.StopTimes) - 1) :
                    (/\ input.StopTimes[used].UniqueStopID = id
                     /\ input.StopTimes[i + 1].UniqueTripServiceID
                          = input.StopTimes[used].UniqueTripServiceID
                     /\ input.StopTimes[j + 1].UniqueTripServiceID
                          = input.StopTimes[used].UniqueTripServiceID)
                      => LET s == ArriveByPreceeding(input,
                                      stops_marked_for_round[id],
                                      SegmentAt(segments, id),
                                      input.StopTimes[used], <<i, j>>, 1,
                                      SearchState)
                         IN  ArrivalDominates(s.mark_writes, s.next)

\* C31: within one round, once a stop has been marked for the next round
\* with source arrival its mark is never changed to transfer, and a stop
\* that is reached both by a ride and as a walking-transfer target in the
\* same round ends the round marked arrival, whichever happened first.
C31_ArrivalDominates ==
    /\ []ArrivalDominates(mark_writes, stops_marked_for_next_round)
    /\ []ReverseBodyArrivalDominates
    /\ [][ArrivalMarksStay]_vars

\* a round ends with a stop marked arrival that was first marked transfer as
\* a walking target and then reached by a ride
C31_Witness ==
    /\ pc = "scan"
    /\ pending = {}
    /\ \E k1, k2 \in 1..Len(mark_writes) :
          /\ k1 < k2
          /\ mark_writes[k1].id = mark_writes[k2].id
          /\ mark_writes[k1].source = RaptorMarkedStopSourceTransfer
          /\ mark_writes[k1].written
          /\ mark_writes[k2].source = RaptorMarkedStopSourceArrival
          /\ stops_marked_for_next_round[mark_writes[k1].id].Source
               = RaptorMarkedStopSourceArrival

\* a stop reached by a ride first is a walking target afterwards, and the
\* transfer mark is not written
WalkedToAfterRide ==
    \E k1, k2 \in 1..Len(mark_writes) :
        /\ k1 < k2
        /\ mark_writes[k1].id = mark_writes[k2].id
        /\ mark_writes[k1].source = RaptorMarkedStopSourceArrival
        /\ mark_writes[k2].source = RaptorMarkedStopSourceTransfer
        /\ ~mark_writes[k2].written

\* the reverse body, run on two preceding stop times, marks a walking target
\* transfer and marks it arrival afterwards
ReverseBodyOverwritesTransferMark ==
    /\ ~IsDepartAt
    /\ pc = "scan"
    /\ \E id \in pending :
          \E used \in 1..Len(input.StopTimes) :
              \E i, j \in 0..(Len(input.StopTimes) - 1) :
                  /\ input.StopTimes[used].UniqueStopID = id
                  /\ input.StopTimes[i + 1].UniqueTripServiceID
                       = input.StopTimes[used].UniqueTripServiceID
                  /\ input.StopTimes[j + 1].UniqueTripServiceID
                       = input.StopTimes[used].UniqueTripServiceID
                  /\ LET s == ArriveByPreceeding(input,
                                  stops_marked_for_round[id],
                                  SegmentAt(segments, id),
                                  input.StopTimes[used], <<i, j>>, 1,
                                  SearchState)
                     IN  \E k1, k2 \in 1..Len(s.mark_writes) :
                             /\ k1 < k2
                             /\ s.mark_writes[k1].id = s.mark_writes[k2].id
                             /\ s.mark_writes[k1].source
                                  = RaptorMarkedStopSourceTransfer
                             /\ s.mark_writes[k1].written
                             /\ s.mark_writes[k2].source
                                  = RaptorMarkedStopSourceArrival

\* every stop of a marked set has a label
MarkedAreLabelled(marked, labels) == DOMAIN marked \subseteq DOMAIN labels

\* the loop body of the reverse scan, run from the state on one preceding
\* stop time of an alighting, marks labelled stops only
ReverseBodyMarksLabelled ==
    (~IsDepartAt /\ pc = "scan") =>
        \A id \in pending :
            \A used \in 1..Len(input.StopTimes) :
                \A i \in 0..(Len(input.StopTimes) - 1) :
                    LET s == ArriveByPreceeding(input, stops_marked_for_round[id],
                                 SegmentAt(segments, id), input.StopTimes[used],
                                 <<i>>, 1, SearchState)
                    IN  MarkedAreLabelled(s.next, s.segments)

\* C32: in every reachable state of either search, every stop contained in
\* the current marked set or in the next-round marked set has an entry in
\* the label store; the scan of a marked stop never reads a missing label.
C32_MarkedStopsAreLabelled ==
    /\ MarkedAreLabelled(stops_marked_for_round, segments)
    /\ MarkedAreLabelled(stops_marked_for_next_round, segments)
    /\ pending \subseteq DOMAIN segments
    /\ ReverseBodyMarksLabelled

\* a round is scanning stops marked by the round before, away from the
\* initial stops, some marked by a ride and some by a walk, while the next
\* set fills
C32_Witness ==
    /\ pc = "scan"
    /\ round >= 1
    /\ pending # {}
    /\ stops_marked_for_next_round # EmptyMap
    /\ \E a, t \in DOMAIN stops_marked_for_round \ StartIds :
          /\ stops_marked_for_round[a].Source = RaptorMarkedStopSourceArrival
          /\ stops_marked_for_round[t].Source = RaptorMarkedStopSourceTransfer

(***************************************************************************)
(* The walking transfers.                                                  *)
(***************************************************************************)
\* the place of the arrival write before place k in the writes, or 0
RECURSIVE PreviousArrivalWrite(_, _)
PreviousArrivalWrite(writes, k) ==
    IF k <= 1 THEN 0
    ELSE IF writes[k - 1].source = RaptorMarkedStopSourceArrival THEN k - 1
    ELSE PreviousArrivalWrite(writes, k - 1)

\* the walking targets gone through for the stop time whose arrival write
\* is at place k: the transfer writes since the arrival write before it
WalkedFor(writes, k) ==
    [n \in 1..(k - 1 - PreviousArrivalWrite(writes, k)) |->
        writes[PreviousArrivalWrite(writes, k) + n].id]

\* the targets of the transfers out of a stop, in the order of the index
TransferTargets(id) ==
    [n \in 1..Len(TransfersByUniqueStopId(input, id)) |->
        input.Transfers[TransfersByUniqueStopId(input, id)[n] + 1].ToUniqueStopID]

\* the transfers out of every stop a ride reached are gone through, all of
\* them, exactly when the ride improved the label of the stop and hopping is
\* allowed or the scan started from a stop marked arrival; no transfer is
\* gone through otherwise
RelaxedWhenAllowed(writes, hopping) ==
    /\ \A k \in 1..Len(writes) :
          writes[k].source = RaptorMarkedStopSourceArrival =>
              WalkedFor(writes, k) =
                  IF /\ writes[k].improved
                     /\ (hopping \/ writes[k].by = <<RaptorMarkedStopSourceArrival>>)
                  THEN TransferTargets(writes[k].id)
                  ELSE <<>>
    /\ writes # <<>> => writes[Len(writes)].source = RaptorMarkedStopSourceArrival

\* from one label store and next set to a later one: no label comes to have
\* a walk as its latest span and no transfer mark is added
NoWalkWritten(before, after, next_before, next_after) ==
    /\ \A id \in DOMAIN after :
          (id \notin DOMAIN before \/ after[id] # before[id]) =>
              /\ after[id].Spans # <<>>
              /\ LatestSpan(after[id].Spans).ViaTrip # <<>>
    /\ \A id \in DOMAIN next_after :
          next_after[id].Source = RaptorMarkedStopSourceTransfer =>
              /\ id \in DOMAIN next_before
              /\ next_before[id].Source = RaptorMarkedStopSourceTransfer

\* without hopping the scan of a stop marked transfer writes no walk
TransferMarkedScansWriteNoWalk ==
    (/\ pc = "scan"
     /\ ~input.AllowTransferHopping
     /\ \E id \in pending \ pending' :
           stops_marked_for_round[id].Source = RaptorMarkedStopSourceTransfer)
      => NoWalkWritten(segments, segments',
                       stops_marked_for_next_round, stops_marked_for_next_round')

\* the loop body of the reverse scan, run from the state on two preceding
\* stop times of an alighting for a marked stop of either source, follows
\* the same rule
ReverseBodyRelaxesWhenAllowed ==
    (~IsDepartAt /\ pc = "scan") =>
        \A id \in pending :
            \A used \in 1..Len(input.StopTimes) :
                \A i, j \in 0..(Len(input.StopTimes) - 1) :
                    \A source \in {RaptorMarkedStopSourceArrival,
                                   RaptorMarkedStopSourceTransfer} :
                        (/\ input.StopTimes[used].UniqueStopID = id
                         /\ input.StopTimes[i + 1].UniqueTripServiceID
                              = input.StopTimes[used].UniqueTripServiceID
                         /\ input.StopTimes[j + 1].UniqueTripServiceID
                              = input.StopTimes[used].UniqueTripServiceID)
                          => LET s == ArriveByPreceeding(input,
                                          MarkedStop(id, source),
                                          SegmentAt(segments, id),
                                          input.StopTimes[used], <<i, j>>, 1,
                                          SearchState)
                             IN  /\ RelaxedWhenAllowed(s.mark_writes,
                                                       input.AllowTransferHopping)
                                 /\ (/\ ~input.AllowTransferHopping
                                     /\ source = RaptorMarkedStopSourceTransfer)
                                      => NoWalkWritten(segments, s.segments,
                                             stops_marked_for_next_round, s.next)

\* C33: while scanning from marked stop m, walking transfers out of a
\* reached stop are relaxed (walk labels written, transfer marks added) if
\* and only if that stop's label was strictly improved by the ride and
\* (allow_transfer_hopping is true or m's mark source is arrival); with
\* allow_transfer_hopping = false a scan from a stop marked transfer writes
\* no walking span and adds no transfer mark.
C33_TransferRelaxationRule ==
    /\ []RelaxedWhenAllowed(mark_writes, input.AllowTransferHopping)
    /\ []ReverseBodyRelaxesWhenAllowed
    /\ [][TransferMarkedScansWriteNoWalk]_vars

\* without hopping a round has scanned from a stop marked transfer and a
\* ride of that scan improved a stop that has transfers, which were not gone
\* through
C33_Witness ==
    /\ ~input.AllowTransferHopping
    /\ \E k \in 1..Len(mark_writes) :
          /\ mark_writes[k].source = RaptorMarkedStopSourceArrival
          /\ mark_writes[k].by = <<RaptorMarkedStopSourceTransfer>>
          /\ mark_writes[k].improved
          /\ TransferTargets(mark_writes[k].id) # <<>>
          /\ WalkedFor(mark_writes, k) = <<>>

\* a ride from a stop marked arrival relaxes the transfers of the stop it
\* improved
ArrivalMarkedScanRelaxes ==
    /\ ~input.AllowTransferHopping
    /\ \E k \in 1..Len(mark_writes) :
          /\ mark_writes[k].source = RaptorMarkedStopSourceArrival
          /\ mark_writes[k].by = <<RaptorMarkedStopSourceArrival>>
          /\ WalkedFor(mark_writes, k) # <<>>

\* with hopping a ride from a stop marked transfer relaxes the transfers of
\* the stop it improved
HoppingRelaxesFromTransferMark ==
    /\ input.AllowTransferHopping
    /\ \E k \in 1..Len(mark_writes) :
          /\ mark_writes[k].source = RaptorMarkedStopSourceArrival
          /\ mark_writes[k].by = <<RaptorMarkedStopSourceTransfer>>
          /\ WalkedFor(mark_writes, k) # <<>>

\* a ride that does not improve the label of a stop with transfers leaves
\* them alone
UnimprovedStopNotRelaxed ==
    \E k \in 1..Len(mark_writes) :
        /\ mark_writes[k].source = RaptorMarkedStopSourceArrival
        /\ ~mark_writes[k].improved
        /\ TransferTargets(mark_writes[k].id) # <<>>
        /\ WalkedFor(mark_writes, k) = <<>>

(***************************************************************************)
(* The journeys as paths.                                                  *)
(***************************************************************************)
\* a journey is a connected path from an origin to a destination of inp,
\* and its own fields are those of its first and last leg
ConnectedPath(inp, journey) ==
    LET legs == journey.Legs
    IN  /\ legs # <<>>
        /\ journey.FromUniqueStopID = legs[1].FromUniqueStopID
        /\ journey.FromUniqueStopID \in FromStopsByUniqueStopId(inp)
        /\ journey.ToUniqueStopID = legs[Len(legs)].ToUniqueStopID
        /\ journey.ToUniqueStopID \in ToStopsByUniqueStopId(inp)
        /\ journey.DepartureTimeInSeconds
             = legs[1].DepartureTimeInSecondsFromUniqueStopID
        /\ journey.ArrivalTimeInSeconds
             = legs[Len(legs)].ArrivalTimeInSecondsToUniqueStopID
        /\ \A n \in 1..(Len(legs) - 1) :
              legs[n + 1].FromUniqueStopID = legs[n].ToUniqueStopID

\* the chain of every label leads to the stop of the label: forward it
\* starts at an origin and ends at the stop, in reverse it starts at the
\* stop and ends at a destination
ChainLeadsToStop(inp, labels) ==
    \A id \in DOMAIN labels :
        LET spans == labels[id].Spans
        IN  IF spans = <<>>
            THEN id \in {StartStops(inp)[i] : i \in 1..Len(StartStops(inp))}
            ELSE /\ \A n \in 1..(Len(spans) - 1) :
                       spans[n + 1].FromUniqueStopID = spans[n].ToUniqueStopID
                 /\ IF inp.Mode = RaptorModeDepartAt
                    THEN /\ spans[1].FromUniqueStopID \in FromStopsByUniqueStopId(inp)
                         /\ spans[Len(spans)].ToUniqueStopID = id
                    ELSE /\ spans[1].FromUniqueStopID = id
                         /\ spans[Len(spans)].ToUniqueStopID
                              \in ToStopsByUniqueStopId(inp)

\* the loop body of the reverse scan, run from the state on two preceding
\* stop times of an alighting at the marked stop, leaves connected chains
\* and emits connected paths only
ReverseBodyEmitsConnectedPaths ==
    (~IsDepartAt /\ pc = "scan") =>
        \A id \in pending :
            \A used \in 1..Len(input.StopTimes) :
                \A i, j \in 0..(Len(input.StopTimes) - 1) :
                    (/\ input.StopTimes[used].UniqueStopID = id
                     /\ input.StopTimes[i + 1].UniqueTripServiceID
                          = input.StopTimes[used].UniqueTripServiceID
                     /\ input.StopTimes[j + 1].UniqueTripServiceID
                          = input.StopTimes[used].UniqueTripServiceID)
                      => LET s == ArriveByPreceeding(input,
                                      stops_marked_for_round[id],
                                      SegmentAt(segments, id),
                                      input.StopTimes[used], <<i, j>>, 1,
                                      SearchState)
                         IN  /\ ChainLeadsToStop(input, s.segments)
                             /\ \A n \in 1..Len(s.found) :
                                   ConnectedPath(input, s.found[n])

\* C34: every journey returned by either search is a connected path from an
\* origin to a destination: journey.from equals the first leg's from stop
\* and is a member of from_stops, journey.to equals the last leg's to stop
\* and is a member of to_stops, journey.departure and journey.arrival equal
\* the first leg's departure and the last leg's arrival, and each leg starts
\* at the stop where the previous leg ended.
C34_JourneysAreConnectedPaths ==
    /\ \A n \in 1..Len(potential_journeys_found) :
          ConnectedPath(input, potential_journeys_found[n])
    /\ ChainLeadsToStop(input, segments)
    /\ ReverseBodyEmitsConnectedPaths

\* a search has returned a journey of a ride, a walk and a ride
C34_Witness ==
    /\ Returned
    /\ \E n \in 1..Len(potential_journeys_found) :
          LET legs == potential_journeys_found[n].Legs
          IN  /\ Len(legs) >= 3
              /\ \E k \in 1..Len(legs) : legs[k].ViaTrip = <<>>

\* the reverse body, run on a preceding stop time at an origin, emits a
\* journey
ReverseBodyEmits ==
    /\ ~IsDepartAt
    /\ pc = "scan"
    /\ \E id \in pending :
          \E used \in 1..Len(input.StopTimes) :
              \E i \in 0..(Len(input.StopTimes) - 1) :
                  /\ input.StopTimes[used].UniqueStopID = id
                  /\ input.StopTimes[i + 1].UniqueTripServiceID
                       = input.StopTimes[used].UniqueTripServiceID
                  /\ ArriveByPreceeding(input, stops_marked_for_round[id],
                         SegmentAt(segments, id), input.StopTimes[used],
                         <<i, i>>, 1, SearchState).found # <<>>

(***************************************************************************)
(* The legs and the input.                                                 *)
(***************************************************************************)
\* a walking span follows a transfer row of inp in the direction of the row
WalkUsesTransfer(inp, leg) ==
    \E i \in 1..Len(inp.Transfers) :
        /\ inp.Transfers[i].FromUniqueStopID = leg.FromUniqueStopID
        /\ inp.Transfers[i].ToUniqueStopID = leg.ToUniqueStopID
        /\ inp.Transfers[i].MinimumTransferTimeInSeconds
             = leg.ArrivalTimeInSecondsToUniqueStopID
                 - leg.DepartureTimeInSecondsFromUniqueStopID

WalksUseTransfers(inp, spans) ==
    \A n \in 1..Len(spans) :
        spans[n].ViaTrip = <<>> => WalkUsesTransfer(inp, spans[n])

\* the walking spans of the journeys found and of the chains they are cut
\* from
StoredWalksUseTransfers ==
    /\ \A n \in 1..Len(potential_journeys_found) :
          WalksUseTransfers(input, potential_journeys_found[n].Legs)
    /\ \A id \in DOMAIN segments : WalksUseTransfers(input, segments[id].Spans)

\* the chains the loop body of the reverse scan leaves when it is run from
\* the state on one preceding stop time of an alighting at the marked stop
ReverseBodyWalksUseTransfers ==
    (~IsDepartAt /\ pc = "scan") =>
        \A id \in pending :
            \A used \in 1..Len(input.StopTimes) :
                \A i \in 0..(Len(input.StopTimes) - 1) :
                    (/\ input.StopTimes[used].UniqueStopID = id
                     /\ input.StopTimes[i + 1].UniqueTripServiceID
                          = input.StopTimes[used].UniqueTripServiceID)
                      => LET s == ArriveByPreceeding(input,
                                      stops_marked_for_round[id],
                                      SegmentAt(segments, id),
                                      input.StopTimes[used], <<i>>, 1,
                                      SearchState)
                         IN  \A to \in DOMAIN s.segments :
                                 WalksUseTransfers(input, s.segments[to].Spans)

ForwardJourneyWalks ==
    /\ IsDepartAt
    /\ Returned
    /\ \E n \in 1..Len(potential_journeys_found) :
          \E k \in 1..Len(potential_journeys_found[n].Legs) :
              potential_journeys_found[n].Legs[k].ViaTrip = <<>>

\* an in-vehicle span rides its trip service forward from a stop time at
\* its first stop to a stop time at its second
RidesTripForward(inp, leg) ==
    LET via == leg.ViaTrip[1]
    IN  /\ \E i \in 1..Len(inp.StopTimes) :
              /\ inp.StopTimes[i].UniqueTripServiceID = via.UniqueTripServiceID
              /\ inp.StopTimes[i].UniqueStopID = leg.FromUniqueStopID
              /\ inp.StopTimes[i].StopSequence = via.FromStopSequenceInTrip
              /\ inp.StopTimes[i].DepartureTimeInSeconds
                   = leg.DepartureTimeInSecondsFromUniqueStopID
        /\ \E i \in 1..Len(inp.StopTimes) :
              /\ inp.StopTimes[i].UniqueTripServiceID = via.UniqueTripServiceID
              /\ inp.StopTimes[i].UniqueStopID = leg.ToUniqueStopID
              /\ inp.StopTimes[i].StopSequence = via.ToStopSequenceInTrip
              /\ inp.StopTimes[i].ArrivalTimeInSeconds
                   = leg.ArrivalTimeInSecondsToUniqueStopID
        /\ via.FromStopSequenceInTrip < via.ToStopSequenceInTrip

RidesAreForward(inp, spans) ==
    \A n \in 1..Len(spans) :
        spans[n].ViaTrip # <<>> => RidesTripForward(inp, spans[n])

\* C36: every in-vehicle leg of a journey returned by either search rides
\* one trip service forward between two of its stop times: the input holds a
\* stop time of via_trip.unique_trip_service_id at leg.from with
\* stop_sequence = from_stop_sequence and departure = leg.departure, and one
\* at leg.to with stop_sequence = to_stop_sequence and arrival =
\* leg.arrival, with from_stop_sequence < to_stop_sequence.
C36_RidesFollowOneTripForward ==
    Returned =>
        \A n \in 1..Len(potential_journeys_found) :
            RidesAreForward(input, potential_journeys_found[n].Legs)

\* what the rides of the journeys found do keep: each leaves with a stop
\* time at its first stop and arrives with a stop time of its trip service
\* at its second
RidesJoinStopTimes ==
    \A n \in 1..Len(potential_journeys_found) :
        \A k \in 1..Len(potential_journeys_found[n].Legs) :
            LET leg == potential_journeys_found[n].Legs[k]
            IN  leg.ViaTrip # <<>> =>
                  /\ \E i \in 1..Len(input.StopTimes) :
                        /\ input.StopTimes[i].UniqueStopID = leg.FromUniqueStopID
                        /\ input.StopTimes[i].StopSequence
                             = leg.ViaTrip[1].FromStopSequenceInTrip
                        /\ input.StopTimes[i].DepartureTimeInSeconds
                             = leg.DepartureTimeInSecondsFromUniqueStopID
                  /\ \E i \in 1..Len(input.StopTimes) :
                        /\ input.StopTimes[i].UniqueTripServiceID
                             = leg.ViaTrip[1].UniqueTripServiceID
                        /\ input.StopTimes[i].UniqueStopID = leg.ToUniqueStopID
                        /\ input.StopTimes[i].StopSequence
                             = leg.ViaTrip[1].ToStopSequenceInTrip
                        /\ input.StopTimes[i].ArrivalTimeInSeconds
                             = leg.ArrivalTimeInSecondsToUniqueStopID

\* a search has returned a journey of two rides
TwoRidesReturned ==
    /\ Returned
    /\ \E n \in 1..Len(potential_journeys_found) :
          InVehicleLegs(potential_journeys_found[n].Legs) >= 2

(***************************************************************************)
(* GetTimePartition.                                                       *)
(***************************************************************************)
Multiple(n, of) == GoRem(n, of) = 0

\* the two results enclose the timestamp between neighbouring multiples of
\* the interval
Encloses(l, u, timestamp, interval) ==
    /\ Multiple(l, interval)
    /\ Multiple(u, interval)
    /\ l <= timestamp
    /\ timestamp <= u
    /\ u - l = IF Multiple(timestamp, interval) THEN 0 ELSE interval

BothResults == lower_result # <<>> /\ upper_result # <<>>

\* C37: GetTimePartition: for every interval > 0 and every signed timestamp
\* ts (negative values included), the lower result L = GetTimePartition(ts,
\* interval, false) and the upper result U = GetTimePartition(ts, interval,
\* true) are both multiples of interval with L <= ts <= U, and U - L is 0
\* when ts is a multiple of interval and exactly interval otherwise.
C37_PartitionEnclosesTimestamp ==
    BothResults =>
        Encloses(lower_result[1], upper_result[1], call_timestamp, call_interval)

\* from zero on the results enclose the timestamp
NonNegativeTimestampEnclosed ==
    (BothResults /\ call_timestamp >= 0) =>
        Encloses(lower_result[1], upper_result[1], call_timestamp, call_interval)

\* below zero the results are multiples of the interval one interval apart,
\* or equal at a multiple, and the upper result is not below the timestamp
NegativeTimestampResults ==
    (BothResults /\ call_timestamp < 0) =>
        /\ Multiple(lower_result[1], call_interval)
        /\ Multiple(upper_result[1], call_interval)
        /\ call_timestamp <= upper_result[1]
        /\ upper_result[1] - lower_result[1] =
             IF Multiple(call_timestamp, call_interval) THEN 0 ELSE call_interval

\* the lower result of a negative timestamp lies above the timestamp
LowerAboveNegativeTimestamp ==
    /\ BothResults
    /\ call_timestamp < 0
    /\ lower_result[1] > call_timestamp
=============================================================================
